---- MODULE Spec2Model ----
(***************************************************************************)
(* A model of the mingw64-windows package manager (src/src/commands):      *)
(* the dependency resolver (dependencies.rs), the available-packages cache *)
(* (available_packages.rs) and the transactional installer (installer.rs). *)
(*                                                                         *)
(* Text is modelled as sequences of one-character strings, so that         *)
(* joining, splitting and comparing strings are computed the way the code  *)
(* computes them.  An Option<T> is a sequence of length 0 (None) or 1      *)
(* (Some).                                                                 *)
(***************************************************************************)
EXTENDS Integers, Sequences, FiniteSets, TLC

VARIABLES
    \* ---- dependencies::list (dependencies.rs) ----
    roots,               \* the `packages: Vec<&Package>` argument
    installed_packages,  \* the `installed_packages` argument
    available_packages,  \* the `available_packages` argument
    packages,            \* the work deque
    processed,           \* the output list under construction
    snapshots,           \* the set of deque snapshots seen so far
    list_pc,             \* "idle", "loop" while the while-loop runs, "done" after return
    available_file,      \* the available-packages cache file: None or Some(bytes)
    remote_generation,   \* per repository, which revision of its database is online
    sync_call,           \* None, or Some(inputs and outcome of the last get_packages call)
    pending_file,        \* the pending marker file: None or Some(bytes)
    installed_file,      \* the installed catalog file: None or Some(bytes)
    backup_file,         \* the backup of the installed catalog: None or Some(bytes)
    root_files,          \* the tree below the root directory written by extraction
    run,                 \* the command being run and where it stands
    commands,            \* number of commands started so far
    entry_faults,        \* number of archive entries that failed so far
    catalog_calls,       \* the direct calls of append_package and replace_package so far
    record_pc,           \* where a conversion between a record and its line stands
    record_package,      \* None, or Some(the package a conversion started from)
    record_line,         \* the line being parsed
    record_parsed,       \* None, or Some(Result of Package::try_from)
    record_formatted,    \* None, or Some(the line String::from gave for the parsed record)
    call_function,       \* "idle", or the function of packages.rs, available_packages.rs
                         \* or dependencies.rs that is called on its own
    call_args,           \* the arguments of that call
    call_result          \* None, or Some(what the call returned)

list_vars == <<roots, installed_packages, available_packages, packages,
               processed, snapshots, list_pc>>

sync_vars == <<available_file, remote_generation, sync_call>>

file_vars == <<pending_file, installed_file, backup_file, root_files>>

install_vars == <<file_vars, run, commands, entry_faults>>

catalog_vars == <<catalog_calls>>

record_vars == <<record_pc, record_package, record_line, record_parsed, record_formatted>>

call_vars == <<call_function, call_args, call_result>>

vars == <<list_vars, sync_vars, install_vars, catalog_vars, record_vars, call_vars>>

(***************************************************************************)
(* Text                                                                    *)
(***************************************************************************)

\* The characters used by the model, in ASCII order.
Alphabet ==
    <<"\t", "\n", " ", "#", "*", "+", ",", "-", ".", "/", "0", "1", "2", "3", "4",
      "5", "6", "7", "8", "9", "=", ">", "A", "B", "a", "b", "c", "d", "e", "f", "g", "h", "i",
      "k", "l", "m", "n", "o", "p", "r", "s", "t", "u", "w", "x", "y", "z", "~">>

AlphabetRank == [c \in {Alphabet[i] : i \in 1..Len(Alphabet)} |->
                    CHOOSE i \in 1..Len(Alphabet) : Alphabet[i] = c]

CharRank(c) == AlphabetRank[c]

\* str::cmp: -1, 0 or 1 for Less, Equal, Greater (lexicographic, by byte).
StrCmp(s, t) ==
    LET n == IF Len(s) < Len(t) THEN Len(s) ELSE Len(t)
        diff == {i \in 1..n : s[i] # t[i]}
    IN  IF diff = {}
        THEN IF Len(s) < Len(t) THEN -1 ELSE IF Len(s) > Len(t) THEN 1 ELSE 0
        ELSE LET k == CHOOSE i \in diff : \A j \in diff : i <= j
             IN  IF CharRank(s[k]) < CharRank(t[k]) THEN -1 ELSE 1

\* [String]::join
RECURSIVE Join(_, _)
Join(strs, sep) ==
    IF strs = <<>> THEN <<>>
    ELSE IF Len(strs) = 1 THEN strs[1]
    ELSE strs[1] \o sep \o Join(Tail(strs), sep)

\* Position of the first occurrence of sep in s at or after position i, 0 if none.
RECURSIVE FindFrom(_, _, _)
FindFrom(s, sep, i) ==
    IF i + Len(sep) - 1 > Len(s) THEN 0
    ELSE IF s[i] = sep[1] /\ SubSeq(s, i, i + Len(sep) - 1) = sep THEN i
    ELSE FindFrom(s, sep, i + 1)

\* str::split: always at least one piece.
RECURSIVE Split(_, _)
Split(s, sep) ==
    LET k == FindFrom(s, sep, 1)
    IN  IF k = 0 THEN <<s>>
        ELSE <<SubSeq(s, 1, k - 1)>> \o Split(SubSeq(s, k + Len(sep), Len(s)), sep)

(***************************************************************************)
(* Repositories and compressions (repositories.rs, utils.rs)               *)
(***************************************************************************)

\* Repository::enabled(): the static list ALL, in its order.
Enabled == <<"Msys", "Mingw64">>

\* Repository::name
RepositoryName(r) ==
    IF r = "Msys" THEN <<"m", "s", "y", "s">>
    ELSE <<"m", "i", "n", "g", "w", "6", "4">>

\* Repository::from: Some(repository) for the name of an enabled repository.
RepositoryFrom(name) ==
    LET hit == {i \in 1..Len(Enabled) : RepositoryName(Enabled[i]) = name}
    IN  IF hit = {} THEN <<>>
        ELSE <<Enabled[CHOOSE i \in hit : \A j \in hit : i <= j]>>

\* ALL_COMPRESSIONS, in its order.
ALL_COMPRESSIONS == <<"ZSTD", "XZ", "GZ">>

\* Compression::extension
Extension(c) ==
    IF c = "ZSTD" THEN <<"z", "s", "t">>
    ELSE IF c = "XZ" THEN <<"x", "z">>
    ELSE <<"g", "z">>

\* Compression::from_extension
FromExtension(ext) ==
    LET hit == {i \in 1..Len(ALL_COMPRESSIONS) : Extension(ALL_COMPRESSIONS[i]) = ext}
    IN  IF hit = {} THEN <<>>
        ELSE <<ALL_COMPRESSIONS[CHOOSE i \in hit : \A j \in hit : i <= j]>>

(***************************************************************************)
(* Package records (packages.rs)                                           *)
(***************************************************************************)

TAB == <<"\t">>
PLUS == <<"+">>
NAME_SEPARATOR == <<",", " ">>

\* struct Package
Package(repository, names, version, compression, arch, dependencies) ==
    [repository |-> repository, names |-> names, version |-> version,
     compression |-> compression, arch |-> arch, dependencies |-> dependencies]

\* Package::name
Name(p) == p.names[1]

\* Package::matches
Matches(p, name) == \E i \in 1..Len(p.names) : p.names[i] = name

\* eq comparing every name of the two records.
PkgEqAllNames(p, q) == p.names = q.names /\ p.version = q.version

\* impl PartialEq for Package: eq
PkgEq(p, q) == Name(p) = Name(q) /\ p.version = q.version

\* impl PartialEq for Package: ne
PkgNe(p, q) == Name(p) # Name(q) \/ p.version # q.version

\* impl PartialOrd for Package: partial_cmp, an Option<Ordering>
PkgPartialCmp(p, q) ==
    LET cmp == <<StrCmp(Name(p), Name(q))>>
    IN  IF cmp = <<0>> THEN <<StrCmp(p.version, q.version)>> ELSE cmp

\* impl Ord for Package: cmp
PkgCmp(p, q) ==
    LET c == StrCmp(Name(p), Name(q))
    IN  IF c = 0 THEN StrCmp(p.version, q.version) ELSE c

\* Vec::contains / BTreeSet::contains, which compare with PartialEq / Ord.
Contains(coll, p) == \E q \in coll : PkgEq(q, p)

Range(seq) == {seq[i] : i \in 1..Len(seq)}

\* impl From<&Package> for String
Format(p) ==
    LET cols == <<RepositoryName(p.repository), Join(p.names, NAME_SEPARATOR), p.version>>
                \o (IF p.compression = <<>> THEN <<>> ELSE <<Extension(p.compression[1])>>)
                \o (IF p.arch = <<>> THEN <<>> ELSE <<p.arch[1]>>)
                \o (IF p.dependencies = <<>> THEN <<>> ELSE <<PLUS>> \o p.dependencies[1])
    IN  Join(cols, TAB)

ParseError == <<>>

\* try_from taking any fourth field, the compression left out when unknown.
TryFromAnyCompression(value) ==
    LET cols == Split(value, TAB)
        plus == {i \in 1..Len(cols) : cols[i] = PLUS}
    IN  IF Len(cols) < 3 THEN ParseError
        ELSE IF RepositoryFrom(cols[1]) = <<>> THEN ParseError
        ELSE <<Package(
                RepositoryFrom(cols[1])[1],
                Split(cols[2], NAME_SEPARATOR),
                cols[3],
                IF Len(cols) >= 4 THEN FromExtension(cols[4]) ELSE <<>>,
                IF Len(cols) >= 5 THEN <<cols[5]>> ELSE <<>>,
                IF plus = {} THEN <<>>
                ELSE LET pos == CHOOSE i \in plus : \A j \in plus : i <= j
                     IN  <<SubSeq(cols, pos + 1, Len(cols))>>)>>

\* impl TryFrom<&str> for Package: Ok(package) as <<package>>, or Err(ParseError).
TryFrom(value) ==
    LET cols == Split(value, TAB)
        plus == {i \in 1..Len(cols) : cols[i] = PLUS}
    IN  IF Len(cols) < 3 THEN ParseError
        ELSE IF RepositoryFrom(cols[1]) = <<>> THEN ParseError
        ELSE IF Len(cols) >= 4 /\ FromExtension(cols[4]) = <<>> THEN ParseError
        ELSE <<Package(
                RepositoryFrom(cols[1])[1],
                Split(cols[2], NAME_SEPARATOR),
                cols[3],
                IF Len(cols) >= 4 THEN FromExtension(cols[4]) ELSE <<>>,
                IF Len(cols) >= 5 THEN <<cols[5]>> ELSE <<>>,
                IF plus = {} THEN <<>>
                ELSE LET pos == CHOOSE i \in plus : \A j \in plus : i <= j
                     IN  <<SubSeq(cols, pos + 1, Len(cols))>>)>>

\* The elements of a BTreeSet<Package> in iteration (ascending) order.  Records
\* that compare Equal are one element of a BTreeSet; the sets of the model hold
\* no two such records.
RECURSIVE SortedSeq(_)
SortedSeq(set) ==
    IF set = {} THEN <<>>
    ELSE LET least == CHOOSE p \in set : \A q \in set : PkgCmp(p, q) <= 0
         IN  <<least>> \o SortedSeq(set \ {least})

\* max_by_key comparing the versions as lengths first.
RECURSIVE MaxByVersionLength(_)
MaxByVersionLength(seq) ==
    IF Len(seq) = 1 THEN seq[1]
    ELSE LET best == MaxByVersionLength(SubSeq(seq, 1, Len(seq) - 1))
             last == seq[Len(seq)]
         IN  IF \/ Len(last.version) > Len(best.version)
                \/ /\ Len(last.version) = Len(best.version)
                   /\ StrCmp(last.version, best.version) >= 0
             THEN last ELSE best

\* Iterator::max_by_key over a sequence: the last element with the maximal key.
RECURSIVE MaxByVersion(_)
MaxByVersion(seq) ==
    IF Len(seq) = 1 THEN seq[1]
    ELSE LET best == MaxByVersion(SubSeq(seq, 1, Len(seq) - 1))
             last == seq[Len(seq)]
         IN  IF StrCmp(last.version, best.version) >= 0 THEN last ELSE best

\* available_packages::latest_version: an Option<&Package>.  The matching
\* records are visited in the set's order, which is the order of the sorted
\* matching records.
latest_version(name, set) ==
    LET matching == SortedSeq({it \in set : Matches(it, name)})
    IN  IF matching = <<>> THEN <<>> ELSE <<MaxByVersion(matching)>>

(***************************************************************************)
(* dependencies::list (dependencies.rs)                                    *)
(***************************************************************************)

\* The characters of the regular expression "[=>~#*]".
OPERATORS == {"=", ">", "~", "#", "*"}

SH == <<"s", "h">>
BASH == <<"b", "a", "s", "h">>

\* dependency_name cutting the token at its last operator character.
dependency_name_cut_at_last(name_with_optional_version) ==
    LET ops == {i \in 1..Len(name_with_optional_version) :
                    name_with_optional_version[i] \in OPERATORS}
        it == IF ops = {} THEN name_with_optional_version
              ELSE SubSeq(name_with_optional_version, 1,
                          (CHOOSE i \in ops : \A j \in ops : i >= j) - 1)
    IN  IF it = SH THEN BASH ELSE it

\* dependency_name: the text before the first operator character; "sh" is "bash".
dependency_name(name_with_optional_version) ==
    LET ops == {i \in 1..Len(name_with_optional_version) :
                    name_with_optional_version[i] \in OPERATORS}
        it == IF ops = {} THEN name_with_optional_version
              ELSE SubSeq(name_with_optional_version, 1,
                          (CHOOSE i \in ops : \A j \in ops : i <= j) - 1)
    IN  IF it = SH THEN BASH ELSE it

\* `x as i8`
AsI8(n) == ((n + 128) % 256) - 128

\* The key of sort_by_key: -1 * (number of declared dependencies as i8), 0 when
\* the dependencies are unknown; the product wraps like the cast does.
SortKey(it) ==
    AsI8(-1 * (IF it.dependencies = <<>> THEN 0 ELSE AsI8(Len(it.dependencies[1]))))

\* The product of the key is -1 * i8::MIN, which no i8 holds.
KeyOverflows(it) ==
    it.dependencies # <<>> /\ AsI8(Len(it.dependencies[1])) = -128

\* slice::sort_by_key: a stable sort by ascending key.
RECURSIVE SortByKey(_)
SortByKey(seq) ==
    IF seq = <<>> THEN <<>>
    ELSE LET sorted == SortByKey(SubSeq(seq, 1, Len(seq) - 1))
             x == seq[Len(seq)]
             before == {i \in 1..Len(sorted) : SortKey(sorted[i]) <= SortKey(x)}
             k == IF before = {} THEN 0 ELSE CHOOSE i \in before : \A j \in before : j <= i
         IN  SubSeq(sorted, 1, k) \o <<x>> \o SubSeq(sorted, k + 1, Len(sorted))

\* MissingDependencies without the test on the installed set.
MissingDependenciesIgnoringInstalled(package, installed, available, done) ==
    IF package.dependencies = <<>> THEN <<>>
    ELSE LET tokens == package.dependencies[1]
             found == [i \in 1..Len(tokens) |->
                         latest_version(dependency_name(tokens[i]), available)]
             keep == SelectSeq([i \in 1..Len(tokens) |-> i],
                        LAMBDA i : /\ found[i] # <<>>
                                   /\ ~Contains(Range(done), found[i][1]))
             dependencies == [k \in 1..Len(keep) |-> found[keep[k]][1]]
         IN  IF dependencies = <<>> THEN <<>> ELSE <<dependencies>>

\* MissingDependencies giving up on a package with a token that does not resolve.
MissingDependenciesAllOrNone(package, installed, available, done) ==
    IF package.dependencies = <<>> THEN <<>>
    ELSE LET tokens == package.dependencies[1]
             found == [i \in 1..Len(tokens) |->
                         latest_version(dependency_name(tokens[i]), available)]
             keep == SelectSeq([i \in 1..Len(tokens) |-> i],
                        LAMBDA i : /\ found[i] # <<>>
                                   /\ ~Contains(installed, found[i][1])
                                   /\ ~Contains(Range(done), found[i][1]))
             dependencies == [k \in 1..Len(keep) |-> found[keep[k]][1]]
         IN  IF dependencies = <<>> \/ \E i \in 1..Len(tokens) : found[i] = <<>>
             THEN <<>> ELSE <<dependencies>>

\* Lines 26-54: the dependencies of the front package that resolve through
\* latest_version and are neither installed nor processed, in the order of the
\* tokens; None when the package declares none or none is left.
MissingDependencies(package, installed, available, done) ==
    IF package.dependencies = <<>> THEN <<>>
    ELSE LET tokens == package.dependencies[1]
             found == [i \in 1..Len(tokens) |->
                         latest_version(dependency_name(tokens[i]), available)]
             keep == SelectSeq([i \in 1..Len(tokens) |-> i],
                        LAMBDA i : /\ found[i] # <<>>
                                   /\ ~Contains(installed, found[i][1])
                                   /\ ~Contains(Range(done), found[i][1]))
             dependencies == [k \in 1..Len(keep) |-> found[keep[k]][1]]
         IN  IF dependencies = <<>> THEN <<>> ELSE <<dependencies>>

\* Lines 55-59: the deque's names joined by ", ".
Snapshot(deque) == Join([i \in 1..Len(deque) |-> Name(deque[i])], NAME_SEPARATOR)

\* PushDependencies with push_back in place of push_front.
RECURSIVE PushDependenciesBack(_, _)
PushDependenciesBack(deque, dependencies) ==
    IF dependencies = <<>> THEN deque
    ELSE PushDependenciesBack(
            SelectSeq(deque, LAMBDA it : ~PkgEq(it, dependencies[1]))
                \o <<dependencies[1]>>,
            Tail(dependencies))

\* PushDependencies stopping after the first dependency.
PushDependenciesFirstOnly(deque, dependencies) ==
    IF dependencies = <<>> THEN deque
    ELSE <<dependencies[1]>> \o SelectSeq(deque, LAMBDA it : ~PkgEq(it, dependencies[1]))

\* Lines 70-73: each dependency is removed from the deque and pushed to its front.
RECURSIVE PushDependencies(_, _)
PushDependencies(deque, dependencies) ==
    IF dependencies = <<>> THEN deque
    ELSE PushDependencies(
            <<dependencies[1]>>
                \o SelectSeq(deque, LAMBDA it : ~PkgEq(it, dependencies[1])),
            Tail(dependencies))

\* Expands without the snapshot test.
ExpandsIgnoringSnapshots(isNew, dependencies) == dependencies # <<>>

\* Line 61: the deque is expanded when its snapshot is new and the front package
\* has missing dependencies.
Expands(isNew, dependencies) == isNew /\ dependencies # <<>>

\* Consume without the test `!processed.contains(package)`.
ConsumeUnchecked(done, package) == Append(done, package)

\* Lines 75-78: the front package is consumed.
Consume(done, package) ==
    IF Contains(Range(done), package) THEN done ELSE Append(done, package)

\* One iteration of the while loop (lines 25-79) on a non-empty deque.
ListIteration(st, installed, available) ==
    LET package == Head(st.packages)
        dependencies == MissingDependencies(package, installed, available, st.processed)
        snapshot == Snapshot(st.packages)
    IN  IF Expands(snapshot \notin st.snapshots, dependencies)
        THEN [packages |-> PushDependencies(st.packages, SortByKey(dependencies[1])),
              processed |-> st.processed,
              snapshots |-> st.snapshots \cup {snapshot}]
        ELSE [packages |-> Tail(st.packages),
              processed |-> Consume(st.processed, package),
              snapshots |-> st.snapshots \cup {snapshot}]

ListStart(rootList) == [packages |-> rootList, processed |-> <<>>, snapshots |-> {}]

(***************************************************************************)
(* Files                                                                   *)
(***************************************************************************)

NL == <<"\n">>
SPACE == <<" ">>

\* A file is None when it does not exist and Some(bytes) otherwise; the bytes
\* are either a ZSTD frame holding a text or the raw text itself.
\* zstd::Encoder / zstd::encode_all
ZstdEncode(text) == [encoding |-> "zstd", text |-> text]

RawBytes(text) == [encoding |-> "raw", text |-> text]

\* File::open followed by zstd::Decoder::new and reading: Some(text), or None
\* when the file does not exist or does not hold a ZSTD frame.
ZstdRead(file) ==
    IF file = <<>> THEN <<>>
    ELSE IF file[1].encoding # "zstd" THEN <<>>
    ELSE <<file[1].text>>

\* BufRead::lines: the text cut at each "\n"; a final "\n" ends the last line.
Lines(text) ==
    LET pieces == Split(text, NL)
    IN  IF pieces[Len(pieces)] = <<>> THEN SubSeq(pieces, 1, Len(pieces) - 1) ELSE pieces

\* Iterator::collect into a BTreeSet<Package>: records equal by (name, version)
\* are one element (the first one is kept).
CollectSet(seq) ==
    {seq[i] : i \in {j \in 1..Len(seq) : \A k \in 1..(j - 1) : ~PkgEq(seq[k], seq[j])}}

\* Packages::get_packages_from_file: Some(set), or None for Err.
get_packages_from_file(file) ==
    IF ZstdRead(file) = <<>> THEN <<>>
    ELSE LET lines == Lines(ZstdRead(file)[1])
             records == [i \in 1..(IF Len(lines) = 0 THEN 0 ELSE Len(lines) - 1) |->
                            TryFrom(lines[i + 1])]
         IN  IF \E i \in 1..Len(records) : records[i] = ParseError THEN <<>>
             ELSE <<CollectSet([i \in 1..Len(records) |-> records[i][1]])>>

(***************************************************************************)
(* available_packages::get_packages (available_packages.rs)                *)
(***************************************************************************)

\* struct RepositoryVersion
RepositoryVersion(repository, etag) == [repository |-> repository, etag |-> etag]

\* Packages::create
Packages(version, list) == [version |-> version, list |-> list]

\* impl Ord for Repository compares the names: the repositories in the order
\* of a BTreeMap<&Repository, _> or BTreeSet<&Repository>.
RepositoriesByName == SelectSeq(<<"Mingw64", "Msys">>, LAMBDA r : r \in Range(Enabled))

\* reader.lines().next(): Some(first line), None for an empty text.
FirstLine(text) ==
    IF text = <<>> THEN <<>>
    ELSE LET k == FindFrom(text, NL, 1)
         IN  IF k = 0 THEN <<text>> ELSE <<SubSeq(text, 1, k - 1)>>

\* The columns of the header line, two by two (chunks(2)); None without a
\* readable first line.
HeaderChunks(file) ==
    LET text == ZstdRead(file)
    IN  IF text = <<>> THEN <<>>
        ELSE IF FirstLine(text[1]) = <<>> THEN <<>>
        ELSE LET cols == Split(FirstLine(text[1])[1], SPACE)
             IN  <<[i \in 1..((Len(cols) + 1) \div 2) |->
                       SubSeq(cols, 2 * i - 1,
                              IF 2 * i <= Len(cols) THEN 2 * i ELSE 2 * i - 1)]>>

\* get_repository_versions_from_file panics on the index it[1] when the header
\* names known repositories only and has an odd number of columns.
HeaderPanics(file) ==
    LET header == HeaderChunks(file)
    IN  /\ header # <<>>
        /\ \A i \in 1..Len(header[1]) : RepositoryFrom(header[1][i][1]) # <<>>
        /\ \E i \in 1..Len(header[1]) : Len(header[1][i]) < 2

\* get_repository_versions_from_file: the map repository -> RepositoryVersion
\* read from the header line, as a function on the repositories it holds; the
\* empty map when the header is unreadable or names an unknown repository.
get_repository_versions_from_file(file) ==
    LET header == HeaderChunks(file)
    IN  IF header = <<>> THEN <<>>
        ELSE LET chunks == header[1]
                 repositories == [i \in 1..Len(chunks) |-> RepositoryFrom(chunks[i][1])]
             IN  IF \E i \in 1..Len(chunks) : repositories[i] = <<>> \/ Len(chunks[i]) < 2
                 THEN <<>>
                 ELSE [r \in {repositories[i][1] : i \in 1..Len(chunks)} |->
                         LET last == CHOOSE i \in 1..Len(chunks) :
                                       /\ repositories[i][1] = r
                                       /\ \A j \in 1..Len(chunks) :
                                            repositories[j][1] = r => j <= i
                         IN  RepositoryVersion(r, chunks[last][2])]

RECURSIVE Flatten(_)
Flatten(seqs) == IF seqs = <<>> THEN <<>> ELSE seqs[1] \o Flatten(Tail(seqs))

\* Mutation of SavedBytes: the header lists the repositories in reverse order.
SavedBytesHeaderReversed(repository_packages) ==
    LET n == Len(repository_packages)
        header == Join([i \in 1..n |->
                          RepositoryName(repository_packages[n + 1 - i].version.repository)
                            \o SPACE \o repository_packages[n + 1 - i].version.etag], SPACE)
        lines == Flatten([i \in 1..n |->
                            Flatten([k \in 1..Len(repository_packages[i].list) |->
                                        Format(repository_packages[i].list[k]) \o NL])])
    IN  ZstdEncode(header \o NL \o lines)

\* save_packages: the bytes written to the available file.
SavedBytes(repository_packages) ==
    LET header == Join([i \in 1..Len(repository_packages) |->
                          RepositoryName(repository_packages[i].version.repository)
                            \o SPACE \o repository_packages[i].version.etag], SPACE)
        lines == Flatten([i \in 1..Len(repository_packages) |->
                            Flatten([k \in 1..Len(repository_packages[i].list) |->
                                        Format(repository_packages[i].list[k]) \o NL])])
    IN  ZstdEncode(header \o NL \o lines)

\* The packages of a Vec<Packages>, collected into a set.
UnionOf(repository_packages) ==
    CollectSet(Flatten([i \in 1..Len(repository_packages) |-> repository_packages[i].list]))

\* What a call leaves behind: the file, how the call ended ("returned",
\* "exit" for process::exit(1), "panic"), the returned set and the
\* repositories remote_packages was called for.
Outcome(file, status, returned, calls) ==
    [file |-> file, status |-> status, returned |-> returned, calls |-> calls]

\* save_and_return_packages: a failed save is reported and the set is returned.
save_and_return_packages(file, repository_packages, saveOk, calls) ==
    Outcome(IF saveOk THEN <<SavedBytes(repository_packages)>> ELSE file,
            "returned", UnionOf(repository_packages), calls)

\* Mutation of get_packages_from_repositories: the repositories that fail are
\* left out and the others are saved and returned.
get_packages_from_repositories_skipping_failures(file, remote, saveOk) ==
    save_and_return_packages(
        file,
        Flatten([i \in 1..Len(Enabled) |->
                    IF remote[Enabled[i]] = <<>> THEN <<>> ELSE <<remote[Enabled[i]][1]>>]),
        saveOk, Enabled)

\* get_packages_from_repositories: every enabled repository is fetched; the
\* first failure, or a failed save, exits.  remote[r] is Some(Packages) when
\* remote_packages succeeds for r and None when it fails.
get_packages_from_repositories(file, remote, saveOk) ==
    LET failed == {i \in 1..Len(Enabled) : remote[Enabled[i]] = <<>>}
    IN  IF failed # {}
        THEN Outcome(file, "exit", {},
                     SubSeq(Enabled, 1, CHOOSE i \in failed : \A j \in failed : i <= j))
        ELSE IF ~saveOk THEN Outcome(file, "exit", {}, Enabled)
        ELSE save_and_return_packages(file, [i \in 1..Len(Enabled) |-> remote[Enabled[i]][1]],
                                      TRUE, Enabled)

\* Mutation of RepositoriesToSync: a repository whose ETag request fails is
\* synced.
RepositoriesToSyncOnError(cache_versions, etags) ==
    SelectSeq(Enabled, LAMBDA r :
        IF r \in DOMAIN cache_versions
        THEN etags[r] = <<>> \/ etags[r][1] # cache_versions[r].etag
        ELSE TRUE)

\* repositories_to_sync (lines 25-37): etags[r] is Some(etag) when remote_etag
\* succeeds for r and None when it fails.
RepositoriesToSync(cache_versions, etags) ==
    SelectSeq(Enabled, LAMBDA r :
        IF r \in DOMAIN cache_versions
        THEN etags[r] # <<>> /\ etags[r][1] # cache_versions[r].etag
        ELSE TRUE)

\* other_repositories (lines 81-93): the repositories that were synced.
OtherRepositories(successfully_synced_packages) ==
    {r \in Range(Enabled) :
        \E i \in 1..Len(successfully_synced_packages) :
            successfully_synced_packages[i].version.repository = r}

\* other_repository_packages (lines 94-107): the map starts empty, remove()
\* finds nothing in it and the value built by or_else is dropped, so that the
\* map is still empty after the loop, whatever the cache holds.
OtherRepositoryPackages(cached_packages, other_repositories, cache_versions) == <<>>

\* Lines 69-129: what is done with the results of the sync of every repository;
\* cached is the result of get_packages_from_file.
AfterSyncAll(file, cache_versions, saveOk, synced_repository_packages, cached) ==
    IF \E i \in 1..Len(synced_repository_packages) : synced_repository_packages[i] = <<>>
    THEN IF cached = <<>> THEN Outcome(file, "exit", {}, Enabled)
         ELSE IF Flatten(synced_repository_packages) = <<>>
         THEN Outcome(file, "returned", cached[1], Enabled)
         ELSE save_and_return_packages(file,
                  Flatten(synced_repository_packages)
                    \o OtherRepositoryPackages(
                          cached[1],
                          OtherRepositories(Flatten(synced_repository_packages)),
                          cache_versions),
                  saveOk, Enabled)
    ELSE save_and_return_packages(file, Flatten(synced_repository_packages), saveOk, Enabled)

\* Lines 47-129: every enabled repository has to be synced.
SyncAll(file, cache_versions, remote, saveOk) ==
    AfterSyncAll(file, cache_versions, saveOk,
                 [i \in 1..Len(Enabled) |-> remote[Enabled[i]]],
                 get_packages_from_file(file))

\* Lines 134-140: the cached packages grouped by repository.
PackageMap(cached_packages) ==
    [r \in {it.repository : it \in cached_packages} |->
        SortedSeq({it \in cached_packages : it.repository = r})]

\* Lines 149-166: Some(fetched packages) for a repository that has to be synced
\* and whose fetch succeeds.
SyncedRepository(r, repositories_to_sync, remote) ==
    IF r \in Range(repositories_to_sync) THEN remote[r] ELSE <<>>

\* Lines 167-184: what is pushed to full_list for a repository.
Pushed(r, synced, package_map, cache_versions) ==
    IF synced # <<>> THEN <<synced[1]>>
    ELSE IF r \in DOMAIN package_map /\ r \in DOMAIN cache_versions
    THEN <<Packages(cache_versions[r], package_map[r])>>
    ELSE <<>>

\* Lines 187-193: package_map has lost the entries of the repositories handed
\* to package_map.remove, which are those without a successful sync.
AfterSyncSome(file, saveOk, repositories_to_sync, full_list, successful_syncs, package_map) ==
    IF successful_syncs = {}
    THEN Outcome(file, "returned",
                 CollectSet(Flatten(
                    [i \in 1..Len(RepositoriesByName) |->
                        IF /\ RepositoriesByName[i] \in DOMAIN package_map
                           /\ RepositoriesByName[i] \in successful_syncs
                        THEN package_map[RepositoriesByName[i]]
                        ELSE <<>>])),
                 repositories_to_sync)
    ELSE save_and_return_packages(file, full_list, saveOk, repositories_to_sync)

\* Lines 134-193: the cache was read.
SyncSomeFrom(file, cache_versions, repositories_to_sync, remote, saveOk, package_map) ==
    AfterSyncSome(
        file, saveOk, repositories_to_sync,
        Flatten([i \in 1..Len(Enabled) |->
                    Pushed(Enabled[i],
                           SyncedRepository(Enabled[i], repositories_to_sync, remote),
                           package_map, cache_versions)]),
        {r \in Range(Enabled) : SyncedRepository(r, repositories_to_sync, remote) # <<>>},
        package_map)

\* Lines 130-199: some, not all, enabled repositories have to be synced.
SyncSome(file, cache_versions, repositories_to_sync, remote, saveOk) ==
    IF get_packages_from_file(file) = <<>>
    THEN get_packages_from_repositories(file, remote, saveOk)
    ELSE SyncSomeFrom(file, cache_versions, repositories_to_sync, remote, saveOk,
                      PackageMap(get_packages_from_file(file)[1]))

\* Lines 38-200: what is done once repositories_to_sync is known.
Sync(file, cache_versions, repositories_to_sync, remote, saveOk) ==
    IF repositories_to_sync = <<>>
    THEN IF get_packages_from_file(file) # <<>>
         THEN Outcome(file, "returned", get_packages_from_file(file)[1], <<>>)
         ELSE get_packages_from_repositories(file, remote, saveOk)
    ELSE IF Len(repositories_to_sync) = Len(Enabled)
    THEN SyncAll(file, cache_versions, remote, saveOk)
    ELSE SyncSome(file, cache_versions, repositories_to_sync, remote, saveOk)

\* Lines 24-37: the header is read and the remote ETags are compared with it.
SyncFromHeader(file, cache_versions, etags, remote, saveOk) ==
    Sync(file, cache_versions, RepositoriesToSync(cache_versions, etags), remote, saveOk)

\* get_packages without the shortcut of lines 18-23.
get_packages_always_syncing(file, fresh, etags, remote, saveOk) ==
    IF HeaderPanics(file) THEN Outcome(file, "panic", {}, <<>>)
    ELSE SyncFromHeader(file, get_repository_versions_from_file(file), etags, remote, saveOk)

\* get_packages (lines 17-201).  fresh: file_was_updated_recently.
get_packages(file, fresh, etags, remote, saveOk) ==
    IF fresh /\ get_packages_from_file(file) # <<>>
    THEN Outcome(file, "returned", get_packages_from_file(file)[1], <<>>)
    ELSE IF HeaderPanics(file) THEN Outcome(file, "panic", {}, <<>>)
    ELSE SyncFromHeader(file, get_repository_versions_from_file(file), etags, remote, saveOk)

(***************************************************************************)
(* The installed catalog (installed_packages.rs)                           *)
(***************************************************************************)

\* fs::metadata(..).len(): a ZSTD frame is never empty.
FileLen(bytes) == IF bytes.encoding = "zstd" THEN Len(bytes.text) + 1 ELSE Len(bytes.text)

\* BufReader::new(File::open(..)).lines() on a file read as plain text: Some(lines),
\* or None when a line is not valid UTF-8, which is the case of a ZSTD frame.
RawLines(bytes) == IF bytes.encoding = "zstd" THEN <<>> ELSE <<Lines(bytes.text)>>

\* installed_packages::get_packages: an unreadable file is an empty set.
installed_get_packages(file) ==
    IF get_packages_from_file(file) = <<>> THEN {} ELSE get_packages_from_file(file)[1]

\* append_package, lines 20-31: the text the new record is appended to; None
\* when the file is not empty and cannot be decoded.
AppendBase(file) ==
    IF file = <<>> THEN <<<<>>>>
    ELSE IF FileLen(file[1]) = 0 THEN <<<<>>>>
    ELSE ZstdRead(file)

\* Mutation of AppendedBytes: the records read from the file are dropped.
AppendedBytesDroppingBase(file, package) == ZstdEncode(NL \o Format(package))

\* append_package, lines 32-34: the bytes written to the installed file and to
\* the backup.
AppendedBytes(file, package) == ZstdEncode(AppendBase(file)[1] \o NL \o Format(package))

\* append_package: Some(bytes written to the installed file and to the
\* backup), or None for Err.
append_package(file, package) ==
    IF AppendBase(file) = <<>> THEN <<>> ELSE <<AppendedBytes(file, package)>>

\* replace_package: Some(bytes written to the installed file and to the
\* backup), or None for Err.  The file is read as plain text, line by line.
replace_package(file, package) ==
    IF file = <<>> THEN <<>>
    ELSE IF RawLines(file[1]) = <<>> THEN <<>>
    ELSE LET input == RawLines(file[1])[1]
             current == [i \in 1..Len(input) |-> TryFrom(input[i])]
         IN  IF \E i \in 1..Len(input) : current[i] = ParseError THEN <<>>
             ELSE <<RawBytes(Join([i \in 1..Len(input) |->
                                     IF Matches(current[i][1], Name(package))
                                     THEN Format(current[i][1])
                                     ELSE input[i]], NL))>>

(***************************************************************************)
(* Commands (mod.rs, utils.rs, installer.rs)                               *)
(***************************************************************************)

YES == "YES"
NO == "NO"

\* Mutation of yes_or_no: the user is asked even with no_prompt.
yes_or_no_always_asking(default, no_prompt, typed) == typed

\* utils::yes_or_no: with no_prompt the default; otherwise what the user ends
\* up answering (an empty line is the default).
yes_or_no(default, no_prompt, typed) == IF no_prompt THEN default ELSE typed

\* The elements of a BTreeSet<&str> in iteration order.
RECURSIVE SortedNames(_)
SortedNames(set) ==
    IF set = {} THEN <<>>
    ELSE LET least == CHOOSE n \in set : \A m \in set : StrCmp(n, m) <= 0
         IN  <<least>> \o SortedNames(set \ {least})

\* mod.rs get_packages, lines 235-244: the latest version of every name found.
FoundPackages(package_names, available) ==
    LET names == SortedNames(package_names)
        found == SelectSeq(names, LAMBDA n : latest_version(n, available) # <<>>)
    IN  CollectSet([i \in 1..Len(found) |-> latest_version(found[i], available)[1]])

\* mod.rs get_packages, lines 245-273: whether the command exits with code 1
\* because of the names that were not found.
NotFoundExits(package_names, available, no_prompt, typed) ==
    LET not_found == {n \in package_names : latest_version(n, available) = <<>>}
        found == FoundPackages(package_names, available)
    IN  IF Cardinality(not_found) = 0 THEN FALSE
        ELSE IF Cardinality(not_found) = 1
        THEN found = {} \/ yes_or_no(NO, no_prompt, typed) = YES
        ELSE Cardinality(found) <= Cardinality(not_found)
               \/ yes_or_no(NO, no_prompt, typed) = YES

\* installer.rs missing_packages: Some(the latest versions of the names no
\* installed record provides), or None when one of them is not available and
\* the process exits.
missing_packages(names, installed, available) ==
    LET wanted == SelectSeq(names, LAMBDA n : ~\E it \in installed : Matches(it, n))
    IN  IF \E i \in 1..Len(wanted) : latest_version(wanted[i], available) = <<>>
        THEN <<>>
        ELSE <<[i \in 1..Len(wanted) |-> latest_version(wanted[i], available)[1]]>>

\* dependencies::list run to its return: the while-loop iterated until the
\* deque is empty.
RECURSIVE ListLoopAll(_, _, _)
ListLoopAll(st, installed, available) ==
    IF st.packages = <<>> THEN st.processed
    ELSE ListLoopAll(ListIteration(st, installed, available), installed, available)

list(rootList, installed, available) == ListLoopAll(ListStart(rootList), installed, available)

INSTALL == <<"i", "n", "s", "t", "a", "l", "l">>
UPDATE == <<"u", "p", "d", "a", "t", "e">>

\* The text written to the pending file, installer.rs lines 145-148 and 192-195.
PendingContent(command, package) == RawBytes(command \o NL \o Format(package))

\* check_for_pending_installation, lines 442-451: Some(command, package) when
\* the marker exists and has a first line and a second line that parses.
ReadPending(file) ==
    IF file = <<>> THEN <<>>
    ELSE IF RawLines(file[1]) = <<>> THEN <<>>
    ELSE LET lines == RawLines(file[1])[1]
         IN  IF Len(lines) < 2 THEN <<>>
             ELSE IF TryFrom(lines[2]) = ParseError THEN <<>>
             ELSE <<[command |-> lines[1], package |-> TryFrom(lines[2])[1]]>>

\* Package::url: Some(url) when the compression and the architecture are known.
url(package) ==
    IF package.compression = <<>> \/ package.arch = <<>> THEN <<>>
    ELSE <<RepositoryName(package.repository) \o <<"/">> \o Name(package) \o <<"-">>
             \o package.version \o <<"-">> \o package.arch[1] \o <<".", "p", "k", "g", ".", "t", "a", "r", ".">>
             \o Extension(package.compression[1])>>

(***************************************************************************)
(* Archives and their extraction (installer.rs extract_package)            *)
(***************************************************************************)

INFO == <<"i", "n", "f", "o">>
COREUTILS == <<"c", "o", "r", "e", "u", "t", "i", "l", "s">>
G == <<"g">>
X == <<"x">>

DOT_INSTALL == <<".", "I", "N", "S", "T", "A", "L", "L">>
METADATA == {<<".", "B", "U", "I", "L", "D", "I", "N", "F", "O">>, <<".", "M", "T", "R", "E", "E">>, <<".", "P", "K", "G", "I", "N", "F", "O">>}
BASH_EXE == <<"u", "s", "r", "/", "b", "i", "n", "/", "b", "a", "s", "h", ".", "e", "x", "e">>

\* Entry paths that extract_package refuses: one with a drive prefix and a
\* root, one that climbs out of the root.
ABSOLUTE_PATH == <<"C", ":", "/", "w">>
DOT_DOT_PATH == <<".", ".", "/", "w">>

\* A tar entry: its path, its type and, for links, the link name.
Entry(path, entry_type, link_name) ==
    [path |-> path, entry_type |-> entry_type, link_name |-> link_name]

\* The archive downloaded for a package: its tar entries in order.
Archive(package) ==
    IF Name(package) = BASH
    THEN <<Entry(BASH_EXE, "Regular", <<>>)>>
    ELSE IF Name(package) = INFO
    THEN <<Entry(DOT_INSTALL, "Regular", <<>>),
           Entry(<<"u", "s", "r", "/", "b", "i", "n", "/", "i", "n", "f", "o", ".", "e", "x", "e">>, "Regular", <<>>)>>
    ELSE IF Name(package) = COREUTILS
    THEN <<Entry(<<"u", "s", "r", "/", "b", "i", "n", "/", "l", "s", ".", "e", "x", "e">>, "Regular", <<>>),
           Entry(<<"u", "s", "r", "/", "b", "i", "n", "/", "d", "i", "r", ".", "e", "x", "e">>, "Link", <<<<"/", "u", "s", "r", "/", "b", "i", "n", "/", "l", "s", ".", "e", "x", "e">>>>)>>
    ELSE <<Entry(<<".", "P", "K", "G", "I", "N", "F", "O">>, "Regular", <<>>),
           Entry(ABSOLUTE_PATH, "Regular", <<>>),
           Entry(DOT_DOT_PATH, "Regular", <<>>),
           Entry(<<"o", "p", "t", "/">> \o Name(package), "Directory", <<>>)>>

\* Path::is_absolute on Windows: a drive prefix followed by a root.
IsAbsolute(name) == Len(name) >= 3 /\ name[2] = ":" /\ name[3] \in {"/", "\\"}

\* name.contains("..")
ContainsDotDot(name) == FindFrom(name, <<".", ".">>, 1) # 0

\* Skipped without the test of "..".
SkippedButForDotDot(entry) ==
    \/ IsAbsolute(entry.path)
    \/ entry.path \in METADATA

\* The entries neither pass looks at: absolute paths, the metadata entries and
\* the paths that contain "..".
Skipped(entry) ==
    \/ IsAbsolute(entry.path)
    \/ entry.path \in METADATA
    \/ entry.path # DOT_INSTALL /\ ContainsDotDot(entry.path)

\* The directories above a path (create_dir_all of the parent).
Ancestors(path) == {SubSeq(path, 1, k - 1) : k \in {i \in 2..Len(path) : path[i] = "/"}}

\* The root directory tree is a set of nodes, one per path.
Node(path, kind) == [path |-> path, kind |-> kind]

\* rm_rf::ensure_removed
Without(tree, path) == {node \in tree : node.path # path}

WithDirectories(tree, paths) ==
    tree \cup {Node(path, "dir") : path \in {q \in paths : \A node \in tree : node.path # q}}

\* What can go wrong with an entry: nothing, the removal of what is in its
\* place, or its creation.
EntryFaults == {"none", "remove", "create"}

\* Pass 1, lines 250-316: the tree after one entry.
Pass1(tree, entry, setup, fault) ==
    IF Skipped(entry) THEN tree
    ELSE IF entry.path = DOT_INSTALL
    THEN IF setup THEN tree ELSE Without(tree, entry.path) \cup {Node(entry.path, "file")}
    ELSE LET parents == WithDirectories(tree, Ancestors(entry.path))
         IN  IF entry.entry_type = "Directory"
             THEN IF fault = "none"
                  THEN WithDirectories(parents, {entry.path})
                  ELSE parents
             ELSE IF entry.entry_type = "Regular"
             THEN IF fault = "none"
                  THEN Without(parents, entry.path) \cup {Node(entry.path, "file")}
                  ELSE IF fault = "create" THEN Without(parents, entry.path)
                  ELSE parents
             ELSE parents

\* Lines 343-351: the path a link name stands for, relative to the root.
LinkTarget(link_name) ==
    IF link_name # <<>> /\ link_name[1] = "/" THEN Tail(link_name) ELSE link_name

\* Pass 2, lines 323-389: the tree after one entry.
Pass2(tree, entry, setup, fault) ==
    IF Skipped(entry) \/ entry.path = DOT_INSTALL THEN tree
    ELSE IF entry.entry_type \notin {"Link", "Symlink"} THEN tree
    ELSE IF fault = "remove" THEN tree
    ELSE IF entry.link_name = <<>> THEN Without(tree, entry.path)
    ELSE LET target == LinkTarget(entry.link_name[1])
             removed == Without(tree, entry.path)
         IN  IF fault = "create" THEN removed
             ELSE IF \E node \in removed : node.path = target /\ node.kind \in {"dir", "junction"}
             THEN removed \cup {Node(entry.path, "junction")}
             ELSE IF \E node \in removed : node.path = target /\ node.kind \in {"file", "hardlink"}
             THEN removed \cup {Node(entry.path, "hardlink")}
             ELSE removed

\* Whether an entry can fail in a pass, and whether the pass writes for it.
CanFail(entry, pass) ==
    /\ ~Skipped(entry)
    /\ entry.path # DOT_INSTALL
    /\ IF pass = "pass1" THEN entry.entry_type \in {"Directory", "Regular"}
       ELSE entry.entry_type \in {"Link", "Symlink"}

\* Line 261: the post-install script is unpacked with unwrap.
Unwraps(entry, pass, setup) == entry.path = DOT_INSTALL /\ pass = "pass1" /\ ~setup

Writes(entry, pass, setup) ==
    /\ ~Skipped(entry)
    /\ IF entry.path = DOT_INSTALL THEN pass = "pass1" /\ ~setup
       ELSE pass = "pass1" \/ entry.entry_type \in {"Link", "Symlink"}

(***************************************************************************)
(* States of the parts of the program that a specification leaves at rest  *)
(***************************************************************************)

\* No call of dependencies::list is in progress.
ListIdle ==
    /\ roots = <<>>
    /\ installed_packages = {}
    /\ available_packages = {}
    /\ packages = <<>>
    /\ processed = <<>>
    /\ snapshots = {}
    /\ list_pc = "idle"

\* What `run` holds while no command is running, pc apart: "idle" before the
\* first command, then how the last command ended.
IdleRun ==
    [pc |-> "idle", command |-> "none", names |-> {}, no_prompt |-> FALSE,
     answer |-> "none", replayed |-> <<>>, nested |-> FALSE, function |-> "none",
     phase |-> "none", queue |-> <<>>, installed |-> {}, available |-> {},
     requested |-> {}, bootstrap |-> <<>>, package |-> <<>>, setup |-> FALSE,
     transaction |-> "none", pass |-> "none", entry |-> 0, result |-> "none",
     trace |-> <<>>, started |-> <<>>, failed |-> {}, script |-> "none"]

\* An empty root directory and no command run yet.
InstallIdle ==
    /\ pending_file = <<>>
    /\ installed_file = <<>>
    /\ backup_file = <<>>
    /\ root_files = {}
    /\ run = IdleRun
    /\ commands = 0
    /\ entry_faults = 0

\* No direct call of append_package or replace_package made.
CatalogIdle == catalog_calls = <<>>

\* No conversion under way.
CallIdle ==
    /\ call_function = "idle"
    /\ call_args = <<>>
    /\ call_result = <<>>

RecordIdle ==
    /\ record_pc = "idle"
    /\ record_package = <<>>
    /\ record_line = <<>>
    /\ record_parsed = <<>>
    /\ record_formatted = <<>>

\* No available file yet, the first revision of every repository online.
SyncIdle ==
    /\ available_file = <<>>
    /\ remote_generation = [r \in Range(Enabled) |-> 1]
    /\ sync_call = <<>>

(***************************************************************************)
(* The resolver as a state machine: one step per iteration of the loop.    *)
(***************************************************************************)

\* The names of the packages the resolver is run on, and a larger set.
ListNames == {<<"a">>, <<"b">>, <<"c">>}
ListNames4 == ListNames \cup {<<"d">>}

\* The longest root list and the longest dependency list drawn.
MaxRoots == 2
MaxDeps == 2

VERSION1 == <<"1">>
ANY == <<"a", "n", "y">>

\* Sequences of at most n distinct elements of S.
SeqsNoRepeat(S, n) ==
    UNION {{q \in [1..k -> S] : \A i, j \in 1..k : i # j => q[i] # q[j]} : k \in 0..n}

\* Every dependency graph over the names: each name is either not available
\* (None) or has a list of at most MaxDeps distinct dependency tokens, none
\* naming the package itself (Some(list)).
Graphs(names) ==
    {g \in [names -> {<<>>} \cup {<<d>> : d \in SeqsNoRepeat(names, MaxDeps)}] :
        \A n \in names : g[n] # <<>> => n \notin Range(g[n][1])}

GraphPackage(g, n) == Package("Msys", <<n>>, VERSION1, <<"ZSTD">>, <<ANY>>, g[n])

GraphPackages(g) == {GraphPackage(g, n) : n \in {m \in DOMAIN g : g[m] # <<>>}}

\* The non-empty lists of at most MaxRoots packages of a set (a package may be
\* listed twice: missing_packages returns one entry per requested name).
RootLists(set) == UNION {[1..k -> set] : k \in 1..MaxRoots}

\* The state at the start of a call of list (lines 13-23).
ListCall(available, installedSets, rootLists) ==
    /\ available_packages = available
    /\ installed_packages \in installedSets
    /\ roots \in rootLists
    /\ packages = roots
    /\ processed = <<>>
    /\ snapshots = {}
    /\ list_pc = "loop"
    /\ SyncIdle
    /\ CatalogIdle
    /\ RecordIdle
    /\ CallIdle
    /\ InstallIdle

\* Every graph over ListNames, every subset of the available packages as the
\* installed set, every list of available packages as the roots.
ListInit ==
    \E g \in Graphs(ListNames) :
        ListCall(GraphPackages(g), SUBSET GraphPackages(g), RootLists(GraphPackages(g)))

\* Every graph over four names, all available and none installed, with the
\* roots [a, b] (the other root pairs are renamings of these graphs).
ListInit4 ==
    \E g \in {h \in Graphs(ListNames4) : \A n \in ListNames4 : h[n] # <<>>} :
        ListCall(GraphPackages(g), {{}},
                 {<<GraphPackage(g, <<"a">>), GraphPackage(g, <<"b">>)>>})

\* An iteration of `while !packages.is_empty()`.
ListLoop ==
    /\ list_pc = "loop"
    /\ packages # <<>>
    /\ LET st == ListIteration([packages |-> packages, processed |-> processed,
                                snapshots |-> snapshots],
                               installed_packages, available_packages)
       IN  /\ packages' = st.packages
           /\ processed' = st.processed
           /\ snapshots' = st.snapshots
    /\ UNCHANGED <<roots, installed_packages, available_packages, list_pc>>
    /\ UNCHANGED <<sync_vars, install_vars, catalog_vars, record_vars, call_vars>>

\* The loop ends and `processed` is returned.
ListReturn ==
    /\ list_pc = "loop"
    /\ packages = <<>>
    /\ list_pc' = "done"
    /\ UNCHANGED <<roots, installed_packages, available_packages, packages,
                   processed, snapshots>>
    /\ UNCHANGED <<sync_vars, install_vars, catalog_vars, record_vars, call_vars>>

ListNext == ListLoop \/ ListReturn

ListSpec == ListInit /\ [][ListNext]_vars

ListSpec4 == ListInit4 /\ [][ListNext]_vars

(***************************************************************************)
(* The available cache as a state machine: calls of get_packages against   *)
(* repositories that change over time.                                     *)
(***************************************************************************)

\* Revisions of a repository database that are published over time.
MaxGeneration == 2

DIGITS == <<"0", "1", "2", "3", "4", "5", "6", "7", "8", "9">>

Digit(n) == <<DIGITS[n + 1]>>

\* Repository::remote_etag: the ETag of revision n of the database of r.
RemoteEtag(r, n) == (IF r = "Msys" THEN <<"A">> ELSE <<"B">>) \o Digit(n)

\* Repository::remote_packages: revision n of the database of r.  Revision 0
\* is a database without packages.
RemotePackages(r, n) ==
    Packages(RepositoryVersion(r, RemoteEtag(r, n)),
             IF n = 0 THEN <<>>
             ELSE IF r = "Msys"
             THEN <<Package(r, <<BASH, SH>>, Digit(n), <<"ZSTD">>, <<ANY>>, <<<<>>>>),
                    Package(r, <<COREUTILS>>, VERSION1, <<"XZ">>, <<ANY>>, <<<<INFO>>>>),
                    Package(r, <<INFO>>, VERSION1, <<"ZSTD">>, <<ANY>>, <<<<SH>>>>)>>
             ELSE <<Package(r, <<G>>, Digit(n), <<"ZSTD">>, <<ANY>>,
                            <<<<BASH \o <<">", "=">> \o Digit(n)>>>>)>>)

RemoteEtags(in) ==
    [r \in Range(Enabled) |->
        IF r \in in.etagOk THEN <<RemoteEtag(r, remote_generation[r])>> ELSE <<>>]

RemoteRepositories(in) ==
    [r \in Range(Enabled) |->
        IF r \in in.packagesOk THEN <<RemotePackages(r, remote_generation[r])>> ELSE <<>>]

\* The requests a call makes, given the file: none when the freshness shortcut
\* applies, otherwise a HEAD per repository of the header and, unless nothing
\* has to be synced and the cache is readable, GETs and a save.
NoRequest(in, readable) == in.fresh /\ readable

NoFetch(in, readable, cache_versions) ==
    readable /\ (in.fresh \/ RepositoriesToSync(cache_versions, RemoteEtags(in)) = <<>>)

\* The outcomes of the requests of a call: whether the file was written within
\* the last hour, which HEAD and GET requests succeed, whether the save does.
\* A request that is not made has the outcome of a success.
SyncInputsOf(readable, cache_versions) ==
    {in \in [fresh : BOOLEAN, etagOk : SUBSET Range(Enabled),
             packagesOk : SUBSET Range(Enabled), saveOk : BOOLEAN] :
        /\ in.fresh => available_file # <<>>
        /\ \A r \in Range(Enabled) :
              (NoRequest(in, readable) \/ r \notin DOMAIN cache_versions) => r \in in.etagOk
        /\ NoFetch(in, readable, cache_versions) =>
              in.packagesOk = Range(Enabled) /\ in.saveOk}

SyncInputs ==
    SyncInputsOf(get_packages_from_file(available_file) # <<>>,
                 get_repository_versions_from_file(available_file))

\* Lines 17-36: the repositories remote_etag is called for, which are those of
\* the cached header unless the shortcut returns first.
EtagRequests(file, fresh) ==
    IF fresh /\ get_packages_from_file(file) # <<>> THEN <<>>
    ELSE IF HeaderPanics(file) THEN <<>>
    ELSE SelectSeq(Enabled, LAMBDA r : r \in DOMAIN get_repository_versions_from_file(file))

\* The record of a call and of its outcome.
Called(in, etags, remote, outcome) ==
    <<[before |-> available_file, fresh |-> in.fresh, etags |-> etags,
       remote |-> remote, saveOk |-> in.saveOk, status |-> outcome.status,
       returned |-> outcome.returned, calls |-> outcome.calls,
       heads |-> EtagRequests(available_file, in.fresh)]>>

SyncInit == ListIdle /\ SyncIdle /\ InstallIdle /\ CatalogIdle /\ RecordIdle /\ CallIdle

\* A new revision of the database of r is published.
RemoteUpdate(r) ==
    /\ remote_generation[r] < MaxGeneration
    /\ remote_generation' = [remote_generation EXCEPT ![r] = @ + 1]
    /\ UNCHANGED <<available_file, sync_call>>
    /\ UNCHANGED <<list_vars, install_vars, catalog_vars, record_vars, call_vars>>

\* A call of get_packages.
GetPackages ==
    \E in \in SyncInputs :
        \E etags \in {RemoteEtags(in)}, remote \in {RemoteRepositories(in)} :
            \E outcome \in {get_packages(available_file, in.fresh, etags, remote, in.saveOk)} :
                /\ available_file' = outcome.file
                /\ sync_call' = Called(in, etags, remote, outcome)
                /\ UNCHANGED remote_generation
                /\ UNCHANGED <<list_vars, install_vars, catalog_vars, record_vars, call_vars>>

\* What a kill during fs::write (save_packages, line 253) leaves of the bytes
\* being written: nothing, or the header line and a record cut short.
CutBytes(bytes) ==
    {RawBytes(<<>>),
     ZstdEncode(FirstLine(bytes.text)[1] \o NL \o RepositoryName(Enabled[1]))}

\* A call is killed while saving the cache file: the file is left cut and the
\* call has no outcome.
CacheCut ==
    /\ get_packages_from_file(available_file) # <<>>
    /\ \E bytes \in CutBytes(available_file[1]) : available_file' = <<bytes>>
    /\ sync_call' = <<>>
    /\ UNCHANGED remote_generation
    /\ UNCHANGED <<list_vars, install_vars, catalog_vars, record_vars, call_vars>>

SyncNext ==
    \/ GetPackages
    \/ \E r \in Range(Enabled) : RemoteUpdate(r)
    \/ CacheCut

SyncSpec == SyncInit /\ [][SyncNext]_vars

\* The same calls when the mingw64 repository is online without any package
\* yet (revision 0 of its database) and gets its packages later.
SyncInit0 ==
    /\ ListIdle
    /\ InstallIdle
    /\ CatalogIdle
    /\ RecordIdle
    /\ CallIdle
    /\ available_file = <<>>
    /\ remote_generation = [r \in Range(Enabled) |-> IF r = "Msys" THEN 1 ELSE 0]
    /\ sync_call = <<>>

SyncSpec0 == SyncInit0 /\ [][SyncNext]_vars

(***************************************************************************)
(* The installer as a state machine: install and update commands run one    *)
(* after the other on one root directory; a command may be killed at any    *)
(* step.  A request that the code tests the failure of can fail.           *)
(***************************************************************************)

\* Commands run on the root directory.
MaxCommands == 2

\* Archive entries that fail to be created.
MaxEntryFaults == 1

InstallRequests == {{G}, {INFO, X}}

UpdateRequests == {{G}}

\* Mutation of remove: the file stays.
remove_nothing(file) == file

\* rm_rf::remove of an existing file.
remove(file) == <<>>

\* Mutation of FirstStep: the marker is never written.
FirstStepWithoutMarker(setup) == "download"

\* The first step of install_package, lines 189-197: the marker unless setup.
FirstStep(setup) == IF setup THEN "download" ELSE "marker"

Reset(pc) == [IdleRun EXCEPT !.pc = pc]

Ended == run.pc \in {"idle", "done", "exit", "crash", "panic"}

Step(name) == Append(run.trace, name)

\* install_package and update_package return: Ok or the step that failed.
Return(result) == [run EXCEPT !.pc = "return", !.result = result]

InstallInit ==
    /\ ListIdle
    /\ InstallIdle
    /\ CatalogIdle
    /\ RecordIdle
    /\ CallIdle
    /\ available_file =
          <<SavedBytes([i \in 1..Len(Enabled) |-> RemotePackages(Enabled[i], 1)])>>
    /\ remote_generation = [r \in Range(Enabled) |-> 1]
    /\ sync_call = <<>>

\* main: `install <names>` (mod.rs install_packages).
InstallCommand ==
    /\ Ended
    /\ commands < MaxCommands
    /\ \E names \in InstallRequests, no_prompt \in BOOLEAN :
          run' = [IdleRun EXCEPT !.pc = "check", !.command = "install",
                                 !.names = names, !.no_prompt = no_prompt]
    /\ commands' = commands + 1
    /\ UNCHANGED <<file_vars, entry_faults, list_vars, sync_vars, catalog_vars, record_vars, call_vars>>

\* main: `update <names>` (mod.rs update_packages).
UpdateCommand ==
    /\ Ended
    /\ commands < MaxCommands
    /\ \E names \in UpdateRequests, no_prompt \in BOOLEAN :
          run' = [IdleRun EXCEPT !.pc = "resolve", !.command = "update",
                                 !.names = names, !.no_prompt = no_prompt]
    /\ commands' = commands + 1
    /\ UNCHANGED <<file_vars, entry_faults, list_vars, sync_vars, catalog_vars, record_vars, call_vars>>

\* check_for_pending_installation.
CheckPending ==
    /\ run.pc = "check"
    /\ LET marker == ReadPending(pending_file)
       IN  IF marker = <<>>
           THEN run' = [run EXCEPT !.pc = "resolve"] /\ UNCHANGED pending_file
           ELSE IF marker[1].command \notin {INSTALL, UPDATE}
           THEN run' = [run EXCEPT !.pc = "resolve"] /\ UNCHANGED pending_file
           ELSE \E typed \in {YES, NO} :
                  IF yes_or_no(YES, run.no_prompt, typed) = YES
                  THEN /\ run' = [run EXCEPT
                                    !.pc = "begin",
                                    !.function = IF marker[1].command = INSTALL
                                                 THEN "install" ELSE "update",
                                    !.nested = TRUE,
                                    !.requested = {marker[1].package},
                                    !.answer = YES,
                                    !.replayed = marker]
                       /\ UNCHANGED pending_file
                  ELSE /\ run' = [run EXCEPT !.pc = "resolve", !.answer = NO,
                                             !.replayed = marker]
                       /\ pending_file' = remove(pending_file)
    /\ UNCHANGED <<installed_file, backup_file, root_files, commands, entry_faults,
                   list_vars, sync_vars, catalog_vars, record_vars, call_vars>>

\* mod.rs get_packages: the requested names are looked up in the available set.
Resolve ==
    /\ run.pc = "resolve"
    /\ \E in \in SyncInputs, typed \in {YES, NO} :
          \E etags \in {RemoteEtags(in)}, remote \in {RemoteRepositories(in)} :
          \E outcome \in {get_packages(available_file, in.fresh, etags, remote, in.saveOk)} :
             /\ available_file' = outcome.file
             /\ run' = IF outcome.status # "returned" THEN Reset(outcome.status)
                       ELSE IF NotFoundExits(run.names, outcome.returned, run.no_prompt, typed)
                       THEN Reset("exit")
                       ELSE [run EXCEPT !.pc = "begin", !.function = run.command,
                                        !.nested = FALSE,
                                        !.requested = FoundPackages(run.names, outcome.returned)]
    /\ UNCHANGED <<file_vars, commands, entry_faults, list_vars, remote_generation, sync_call, catalog_vars, record_vars, call_vars>>

\* installer::install, lines 21-34.
InstallBegin ==
    /\ run.pc = "begin"
    /\ run.function = "install"
    /\ \E in \in SyncInputs :
          \E etags \in {RemoteEtags(in)}, remote \in {RemoteRepositories(in)},
             installed \in {installed_get_packages(installed_file)} :
          \E outcome \in {get_packages(available_file, in.fresh, etags, remote, in.saveOk)} :
             \E bash \in {missing_packages(<<BASH>>, installed, outcome.returned)} :
                /\ available_file' = outcome.file
                /\ run' = IF outcome.status # "returned" THEN Reset(outcome.status)
                          ELSE IF bash = <<>> THEN Reset("exit")
                          ELSE [run EXCEPT
                                  !.pc = "next", !.phase = "bash",
                                  !.installed = installed,
                                  !.available = outcome.returned,
                                  !.queue = IF bash[1] = <<>> THEN <<>>
                                            ELSE list(bash[1], installed, outcome.returned)]
    /\ UNCHANGED <<file_vars, commands, entry_faults, list_vars, remote_generation, sync_call, catalog_vars, record_vars, call_vars>>

\* installer::update, lines 94-96.
UpdateBegin ==
    /\ run.pc = "begin"
    /\ run.function = "update"
    /\ run' = [run EXCEPT !.pc = "next", !.phase = "update",
                          !.installed = installed_get_packages(installed_file),
                          !.queue = SortedSeq(run.requested)]
    /\ UNCHANGED <<file_vars, commands, entry_faults, list_vars, sync_vars, catalog_vars, record_vars, call_vars>>

\* The next package of a for loop of install or update: install_package or
\* update_package is entered, unless update finds the package installed.
NextPackage ==
    /\ run.pc = "next"
    /\ run.queue # <<>>
    /\ LET package == run.queue[1]
           setup == run.phase = "setup"
           transaction == IF run.phase = "update" THEN "update" ELSE "install"
       IN  run' = IF run.phase = "update" /\ Contains(run.installed, package)
                  THEN [run EXCEPT !.queue = Tail(run.queue)]
                  ELSE [run EXCEPT
                          !.pc = IF transaction = "update" THEN FirstStep(FALSE)
                                 ELSE FirstStep(setup),
                          !.package = <<package>>,
                          !.setup = setup,
                          !.transaction = transaction,
                          !.pass = "none", !.entry = 0, !.result = "none", !.trace = <<>>,
                          !.failed = {}, !.script = "none",
                          !.started = Append(run.started,
                                             [transaction |-> transaction, setup |-> setup,
                                              package |-> package])]
    /\ UNCHANGED <<file_vars, commands, entry_faults, list_vars, sync_vars, catalog_vars, record_vars, call_vars>>

\* NextRoots going from the setup loop straight to the requested packages.
NextRootsWithoutReinstall(phase, info_coreutils, bootstrap, requested) ==
    IF phase = "bash" THEN IF info_coreutils = <<>> THEN <<>> ELSE info_coreutils[1]
    ELSE SortedSeq(requested)

\* installer::install, lines 46-82: the roots of the loop that follows the
\* loop of a phase; info_coreutils is the result of missing_packages.
NextRoots(phase, info_coreutils, bootstrap, requested) ==
    IF phase = "bash" THEN IF info_coreutils = <<>> THEN <<>> ELSE info_coreutils[1]
    ELSE IF phase = "setup" THEN bootstrap
    ELSE SortedSeq(requested)

\* installer::install, lines 46-82: the loop of a phase is over and the next
\* one is prepared.
NextPhase ==
    /\ run.pc = "next"
    /\ run.queue = <<>>
    /\ run.phase \in {"bash", "setup", "normal"}
    /\ \E info_coreutils \in
            {missing_packages(<<INFO, COREUTILS>>, run.installed, run.available)} :
       \E rootList \in {NextRoots(run.phase, info_coreutils, run.bootstrap, run.requested)} :
          run' = IF run.phase = "bash" /\ info_coreutils = <<>> THEN Reset("exit")
                 ELSE [run EXCEPT
                         !.phase = IF run.phase = "bash" THEN "setup"
                                   ELSE IF run.phase = "setup" THEN "normal"
                                   ELSE "requested",
                         !.bootstrap = IF run.phase = "bash" THEN rootList ELSE run.bootstrap,
                         !.queue = IF run.phase # "normal" /\ rootList = <<>> THEN <<>>
                                   ELSE list(rootList, run.installed, run.available)]
    /\ UNCHANGED <<file_vars, commands, entry_faults, list_vars, sync_vars, catalog_vars, record_vars, call_vars>>

\* install or update returns: to install_packages after a replay, to main
\* otherwise.
ReturnFromFunction ==
    /\ run.pc = "next"
    /\ run.queue = <<>>
    /\ run.phase \in {"requested", "update"}
    /\ run' = IF run.nested
              THEN [run EXCEPT !.pc = "resolve", !.nested = FALSE, !.function = "none",
                               !.phase = "none", !.installed = {}, !.available = {},
                               !.requested = {}, !.bootstrap = <<>>, !.package = <<>>,
                               !.setup = FALSE, !.transaction = "none", !.pass = "none",
                               !.entry = 0, !.result = "none", !.trace = <<>>,
                               !.failed = {}, !.script = "none"]
              ELSE Reset("done")
    /\ UNCHANGED <<file_vars, commands, entry_faults, list_vars, sync_vars, catalog_vars, record_vars, call_vars>>

\* install_package lines 189-196, update_package lines 145-148: the marker.
WriteMarker ==
    /\ run.pc = "marker"
    /\ \E ok \in BOOLEAN :
          IF ok
          THEN /\ pending_file' =
                     <<PendingContent(IF run.transaction = "update" THEN UPDATE ELSE INSTALL,
                                      run.package[1])>>
               /\ run' = [run EXCEPT !.pc = "download", !.trace = Step("marker")]
          ELSE /\ run' = Return("marker")
               /\ UNCHANGED pending_file
    /\ UNCHANGED <<installed_file, backup_file, root_files, commands, entry_faults,
                   list_vars, sync_vars, catalog_vars, record_vars, call_vars>>

\* download_package_archive.
Download ==
    /\ run.pc = "download"
    /\ \E ok \in BOOLEAN :
          run' = IF url(run.package[1]) = <<>> THEN Reset("panic")
                 ELSE IF ok THEN [run EXCEPT !.pc = "decompress", !.trace = Step("download")]
                 ELSE Return("download")
    /\ UNCHANGED <<file_vars, commands, entry_faults, list_vars, sync_vars, catalog_vars, record_vars, call_vars>>

\* compression.decompress.
Decompress ==
    /\ run.pc = "decompress"
    /\ \E ok \in BOOLEAN :
          run' = IF run.package[1].compression = <<>> THEN Reset("panic")
                 ELSE IF ok
                 THEN [run EXCEPT !.pc = "extract", !.pass = "pass1", !.entry = 0,
                                  !.trace = Step("decompress")]
                 ELSE Return("decompress")
    /\ UNCHANGED <<file_vars, commands, entry_faults, list_vars, sync_vars, catalog_vars, record_vars, call_vars>>

\* AfterEntry going on to the hook in setup mode too.
AfterEntryAlwaysHook(k) ==
    IF k < Len(Archive(run.package[1])) THEN [run EXCEPT !.entry = k + 1]
    ELSE IF run.pass = "pass1" THEN [run EXCEPT !.pass = "pass2", !.entry = 0]
    ELSE [run EXCEPT !.pc = "hook"]

\* Where extract_package stands once entry k of the running pass is done.
AfterEntry(k) ==
    IF k < Len(Archive(run.package[1])) THEN [run EXCEPT !.entry = k + 1]
    ELSE IF run.pass = "pass1" THEN [run EXCEPT !.pass = "pass2", !.entry = 0]
    ELSE IF run.setup THEN Return("Ok")
    ELSE [run EXCEPT !.pc = "hook"]

\* extract_package, lines 248 and 321: tar::Archive::entries().
OpenArchive ==
    /\ run.pc = "extract"
    /\ run.entry = 0
    /\ \E ok \in BOOLEAN : run' = IF ok THEN AfterEntry(0) ELSE Return("extract")
    /\ UNCHANGED <<file_vars, commands, entry_faults, list_vars, sync_vars, catalog_vars, record_vars, call_vars>>

\* extract_package: one entry of one of the two passes.  A failure to create
\* an entry is printed (unless setup) and the pass goes on; a failure to unpack
\* the post-install script panics (unwrap, line 261).
ExtractEntry ==
    /\ run.pc = "extract"
    /\ run.entry > 0
    /\ LET entry == Archive(run.package[1])[run.entry]
       IN  \E fault \in IF /\ CanFail(entry, run.pass) \/ Unwraps(entry, run.pass, run.setup)
                           /\ entry_faults < MaxEntryFaults
                        THEN EntryFaults ELSE {"none"} :
             /\ root_files' = IF Unwraps(entry, run.pass, run.setup) /\ fault # "none"
                              THEN root_files
                              ELSE IF run.pass = "pass1"
                              THEN Pass1(root_files, entry, run.setup, fault)
                              ELSE Pass2(root_files, entry, run.setup, fault)
             /\ entry_faults' = IF fault = "none" THEN entry_faults ELSE entry_faults + 1
             /\ run' = IF Unwraps(entry, run.pass, run.setup) /\ fault # "none"
                       THEN Reset("panic")
                       ELSE [AfterEntry(run.entry) EXCEPT
                               !.trace = IF Writes(entry, run.pass, run.setup)
                                         THEN Step("extract") ELSE run.trace,
                               !.failed = IF fault = "none" THEN run.failed
                                          ELSE run.failed \cup {entry.path}]
    /\ UNCHANGED <<pending_file, installed_file, backup_file, commands, list_vars, sync_vars, catalog_vars, record_vars, call_vars>>

\* Line 401: Command::new(<root>/usr/bin/bash.exe) can only start a program
\* that is there.
BashInRoot(tree) ==
    \E node \in tree : node.path = BASH_EXE /\ node.kind \in {"file", "hardlink"}

\* Hook returning an error when bash could not be started.
HookFailingWithBash ==
    /\ run.pc = "hook"
    /\ IF \E node \in root_files : node.path = DOT_INSTALL
       THEN \E started \in IF BashInRoot(root_files) THEN BOOLEAN ELSE {FALSE},
               deleted \in BOOLEAN :
               IF deleted
               THEN /\ root_files' = Without(root_files, DOT_INSTALL)
                    /\ run' = IF started
                              THEN [Return("Ok") EXCEPT
                                      !.pc = "record", !.result = "none",
                                      !.script = "ran", !.trace = Step("hook")]
                              ELSE Return("hook")
               ELSE /\ run' = Reset("panic")
                    /\ UNCHANGED root_files
       ELSE /\ run' = [run EXCEPT !.pc = "record"]
            /\ UNCHANGED root_files
    /\ UNCHANGED <<pending_file, installed_file, backup_file, commands, entry_faults,
                   list_vars, sync_vars, catalog_vars, record_vars, call_vars>>

\* extract_package, lines 393-425: if the post-install script is there, bash
\* is started on it; whether it started or not, and whatever it printed, the
\* script is deleted (unwrap: a failing deletion panics) and Ok is returned.
Hook ==
    /\ run.pc = "hook"
    /\ IF \E node \in root_files : node.path = DOT_INSTALL
       THEN \E started \in IF BashInRoot(root_files) THEN BOOLEAN ELSE {FALSE},
               deleted \in BOOLEAN :
               IF deleted
               THEN /\ root_files' = Without(root_files, DOT_INSTALL)
                    /\ run' = [Return("Ok") EXCEPT
                                 !.pc = "record", !.result = "none",
                                 !.script = IF started THEN "ran" ELSE "not started",
                                 !.trace = Step("hook")]
               ELSE /\ run' = Reset("panic")
                    /\ UNCHANGED root_files
       ELSE /\ run' = [run EXCEPT !.pc = "record"]
            /\ UNCHANGED root_files
    /\ UNCHANGED <<pending_file, installed_file, backup_file, commands, entry_faults,
                   list_vars, sync_vars, catalog_vars, record_vars, call_vars>>

\* installed_packages::append_package (install) or replace_package (update).
\* A failing append has either changed nothing or created an empty file.
Record ==
    /\ run.pc = "record"
    /\ \E fault \in {"none", "early", "late"} :
          LET written == IF run.transaction = "update"
                         THEN replace_package(installed_file, run.package[1])
                         ELSE IF AppendBase(installed_file) = <<>> THEN <<>>
                         ELSE <<AppendedBytes(installed_file, run.package[1])>>
          IN  IF fault = "none" /\ written # <<>>
              THEN /\ installed_file' = written
                   /\ backup_file' = written
                   /\ run' = [run EXCEPT !.pc = "remove",
                                         !.trace = Step(IF run.transaction = "update"
                                                        THEN "replace" ELSE "append")]
              ELSE /\ installed_file' = IF /\ fault = "late"
                                           /\ run.transaction = "install"
                                           /\ installed_file = <<>>
                                        THEN <<RawBytes(<<>>)>>
                                        ELSE installed_file
                   /\ run' = Return("record")
                   /\ UNCHANGED backup_file
    /\ UNCHANGED <<pending_file, root_files, commands, entry_faults, list_vars, sync_vars, catalog_vars, record_vars, call_vars>>

\* install_package line 218, update_package line 169: the marker is removed.
RemoveMarker ==
    /\ run.pc = "remove"
    /\ \E ok \in BOOLEAN :
          IF ok
          THEN /\ pending_file' = remove(pending_file)
               /\ run' = [Return("Ok") EXCEPT !.trace = Step("remove")]
          ELSE /\ run' = Return("remove")
               /\ UNCHANGED pending_file
    /\ UNCHANGED <<installed_file, backup_file, root_files, commands, entry_faults,
                   list_vars, sync_vars, catalog_vars, record_vars, call_vars>>

\* AfterTransaction going on with the next package after an Err.
AfterTransactionIgnoringErr ==
    /\ run.pc = "return"
    /\ run' = [run EXCEPT
                 !.pc = "next",
                 !.queue = Tail(run.queue),
                 !.installed = IF run.phase \in {"bash", "normal"}
                                  /\ ~Contains(run.installed, run.package[1])
                               THEN run.installed \cup {run.package[1]}
                               ELSE run.installed]
    /\ UNCHANGED <<file_vars, commands, entry_faults, list_vars, sync_vars, catalog_vars, record_vars, call_vars>>

\* The caller of install_package or update_package: exit(1) on Err; on Ok the
\* bash and normal loops record the package in memory and every loop goes on.
AfterTransaction ==
    /\ run.pc = "return"
    /\ run' = IF run.result # "Ok" THEN Reset("exit")
              ELSE [run EXCEPT
                      !.pc = "next",
                      !.queue = Tail(run.queue),
                      !.installed = IF run.phase \in {"bash", "normal"}
                                       /\ ~Contains(run.installed, run.package[1])
                                    THEN run.installed \cup {run.package[1]}
                                    ELSE run.installed]
    /\ UNCHANGED <<file_vars, commands, entry_faults, list_vars, sync_vars, catalog_vars, record_vars, call_vars>>

\* The process is killed between two steps.
Crash ==
    /\ ~Ended
    /\ run' = Reset("crash")
    /\ UNCHANGED <<file_vars, commands, entry_faults, list_vars, sync_vars, catalog_vars, record_vars, call_vars>>

InstallNext ==
    \/ InstallCommand
    \/ UpdateCommand
    \/ CheckPending
    \/ Resolve
    \/ InstallBegin
    \/ UpdateBegin
    \/ NextPackage
    \/ NextPhase
    \/ ReturnFromFunction
    \/ WriteMarker
    \/ Download
    \/ Decompress
    \/ OpenArchive
    \/ ExtractEntry
    \/ Hook
    \/ Record
    \/ RemoveMarker
    \/ AfterTransaction
    \/ Crash

InstallSpec == InstallInit /\ [][InstallNext]_vars

(***************************************************************************)
(* The installed catalog as a state machine: append_package and            *)
(* replace_package are called on the catalog of a root, and installer::update *)
(* is then run on that root.                                               *)
(***************************************************************************)

\* Direct calls of append_package and replace_package.
MaxCatalogCalls == 3

\* Calls of installer::update.
MaxUpdates == 1

\* The records the calls are made with: bash, and two versions of g.
CatalogPackages ==
    {RemotePackages("Msys", 1).list[1]}
        \cup UNION {Range(RemotePackages("Mingw64", n).list) : n \in 1..MaxGeneration}

\* A call and what it returned: Some(bytes written) or None for Err.
CatalogCall(function, package, before, result) ==
    [function |-> function, package |-> package, before |-> before, result |-> result]

\* A new root: the installed file is missing or empty, and there is no
\* available file; the repositories are at their first or at a later revision.
CatalogInit ==
    /\ ListIdle
    /\ available_file = <<>>
    /\ sync_call = <<>>
    /\ remote_generation \in {[r \in Range(Enabled) |-> n] : n \in 1..MaxGeneration}
    /\ CatalogIdle
    /\ RecordIdle
    /\ CallIdle
    /\ pending_file = <<>>
    /\ installed_file \in {<<>>, <<RawBytes(<<>>)>>}
    /\ backup_file = <<>>
    /\ root_files = {}
    /\ run = IdleRun
    /\ commands = 0
    /\ entry_faults = 0

\* installed_packages::append_package.
AppendPackage ==
    /\ run.pc = "idle"
    /\ Len(catalog_calls) < MaxCatalogCalls
    /\ \E package \in CatalogPackages :
          \E written \in {append_package(installed_file, package)} :
             /\ installed_file' = IF written = <<>> THEN installed_file ELSE written
             /\ backup_file' = IF written = <<>> THEN backup_file ELSE written
             /\ catalog_calls' = Append(catalog_calls,
                    CatalogCall("append_package", package, installed_file, written))
    /\ UNCHANGED <<pending_file, root_files, run, commands, entry_faults,
                   list_vars, sync_vars, record_vars, call_vars>>

\* installed_packages::replace_package.
ReplacePackage ==
    /\ run.pc = "idle"
    /\ Len(catalog_calls) < MaxCatalogCalls
    /\ \E package \in CatalogPackages :
          \E written \in {replace_package(installed_file, package)} :
             /\ installed_file' = IF written = <<>> THEN installed_file ELSE written
             /\ backup_file' = IF written = <<>> THEN backup_file ELSE written
             /\ catalog_calls' = Append(catalog_calls,
                    CatalogCall("replace_package", package, installed_file, written))
    /\ UNCHANGED <<pending_file, root_files, run, commands, entry_faults,
                   list_vars, sync_vars, record_vars, call_vars>>

\* installer::update is called with one package.
UpdateCall ==
    /\ Ended
    /\ commands < MaxUpdates
    /\ \E package \in CatalogPackages :
          run' = [IdleRun EXCEPT !.pc = "begin", !.command = "update",
                                 !.function = "update", !.requested = {package}]
    /\ commands' = commands + 1
    /\ UNCHANGED <<file_vars, entry_faults, list_vars, sync_vars, catalog_vars, record_vars, call_vars>>

\* The names given to the update command: none, or g.
UpdateNames == {{}, {G}}

\* main: `update` with or without names (cli.rs lines 103-109, mod.rs
\* update_packages).
UpdatePackages ==
    /\ Ended
    /\ commands < MaxUpdates
    /\ \E names \in UpdateNames, no_prompt \in BOOLEAN :
          run' = [IdleRun EXCEPT !.pc = "resolve", !.command = "update",
                                 !.names = names, !.no_prompt = no_prompt]
    /\ commands' = commands + 1
    /\ UNCHANGED <<file_vars, entry_faults, list_vars, sync_vars, catalog_vars, record_vars, call_vars>>

CatalogNext ==
    \/ AppendPackage
    \/ ReplacePackage
    \/ UpdateCall
    \/ UpdatePackages
    \/ Resolve
    \/ UpdateBegin
    \/ NextPackage
    \/ ReturnFromFunction
    \/ WriteMarker
    \/ Download
    \/ Decompress
    \/ OpenArchive
    \/ ExtractEntry
    \/ Hook
    \/ Record
    \/ RemoveMarker
    \/ AfterTransaction

CatalogSpec == CatalogInit /\ [][CatalogNext]_vars

(***************************************************************************)
(* Conversions between a package record and its line (packages.rs): a      *)
(* record is formatted, the line is parsed, the parsed record is formatted. *)
(***************************************************************************)

NAME == <<"n", "a", "m", "e">>
ALTNAME == <<"n", "a", "m", "e", "-", "g", "i", "t">>
VERSION == <<"v", "e", "r", "s", "i", "o", "n">>
X86_64 == <<"x", "8", "6", "_", "6", "4">>
DEP1 == <<"d", "e", "p", "1">>
DEP2 == <<"d", "e", "p", "2", "=", "1">>
DEP3 == <<"d", "e", "p", "3", ">", "3", ".", "2">>
DEP4 == <<"d", "e", "p", "4">>

\* The dependency tokens of tests::test_parsing_with_dependencies.
TestDependencies == <<DEP1, DEP2, DEP3, DEP4>>

\* The line of tests::test_parsing_with_dependencies.
TestLine ==
    Join(<<RepositoryName("Msys"), NAME, VERSION, Extension("ZSTD"), PLUS>>
            \o TestDependencies, TAB)

\* Package values: each field present or absent, one or two names, the
\* dependencies unknown, empty or not.
RecordPackages ==
    {Package(r, names, VERSION, compression, arch, dependencies) :
        r \in Range(Enabled),
        names \in {<<NAME>>, <<NAME, ALTNAME>>},
        compression \in {<<>>, <<"ZSTD">>, <<"XZ">>},
        arch \in {<<>>, <<ANY>>, <<X86_64>>},
        dependencies \in {<<>>, <<<<>>>>, <<<<DEP1>>>>, <<TestDependencies>>}}

\* What follows the version on a line: nothing, or the extension of a
\* compression, then possibly an architecture, then possibly "+" and tokens.
LineTails ==
    {<<>>} \cup
    {<<Extension(c)>> \o arch \o dependencies :
        c \in {"ZSTD", "XZ"},
        arch \in {<<>>, <<ANY>>, <<X86_64>>},
        dependencies \in {<<>>, <<PLUS>>, <<PLUS, DEP1>>, <<PLUS>> \o TestDependencies}}

\* Lines written field by field: tabs between fields, ", " between names.
RecordLines ==
    {Join(<<RepositoryName(r), names, VERSION>> \o tail, TAB) :
        r \in Range(Enabled),
        names \in {NAME, NAME \o NAME_SEPARATOR \o ALTNAME},
        tail \in LineTails}

UNKNOWN_REPO == <<"u", "n", "k", "n", "o", "w", "n", "_", "r", "e", "p", "o">>
UNKNOWN_EXT == <<"u", "n", "k", "n", "o", "w", "n", "_", "e", "x", "t">>

\* Fourth fields that are no extension of a compression: an unknown word, a
\* version, the marker of the dependencies, an extension in capitals, nothing.
UnknownExtensions ==
    {UNKNOWN_EXT, VERSION1, PLUS, <<"Z", "S", "T">>, <<>>}

\* Lines that try_from refuses: the empty string, one or two fields, a first
\* field naming no enabled repository, a fourth field naming no compression.
TooShortLines ==
    {<<>>} \cup
    {Join(<<RepositoryName(r)>> \o names, TAB) :
        r \in Range(Enabled),
        names \in {<<>>, <<NAME>>, <<NAME \o NAME_SEPARATOR \o ALTNAME>>}}

UnknownRepositoryLines ==
    {Join(<<first, NAME, VERSION>> \o tail, TAB) :
        first \in {UNKNOWN_REPO, <<>>, <<"M", "s", "y", "s">>},
        tail \in LineTails}

UnknownCompressionLines ==
    {Join(<<RepositoryName(r), NAME, VERSION, ext>> \o arch \o dependencies, TAB) :
        r \in Range(Enabled),
        ext \in UnknownExtensions,
        arch \in {<<>>, <<ANY>>},
        dependencies \in {<<>>, <<PLUS>>, <<PLUS, DEP1>>}}

RefusedLines == TooShortLines \cup UnknownRepositoryLines \cup UnknownCompressionLines

RecordInit ==
    /\ ListIdle
    /\ SyncIdle
    /\ InstallIdle
    /\ CatalogIdle
    /\ CallIdle
    /\ record_parsed = <<>>
    /\ record_formatted = <<>>
    /\ \/ /\ record_pc = "package"
          /\ record_package \in {<<p>> : p \in RecordPackages}
          /\ record_line = <<>>
       \/ /\ record_pc = "line"
          /\ record_package = <<>>
          /\ record_line \in RecordLines \cup RefusedLines

\* String::from(&package)
FormatPackage ==
    /\ record_pc = "package"
    /\ record_line' = Format(record_package[1])
    /\ record_pc' = "line"
    /\ UNCHANGED <<record_package, record_parsed, record_formatted>>
    /\ UNCHANGED <<list_vars, sync_vars, install_vars, catalog_vars, call_vars>>

\* Package::try_from(line)
ParseLine ==
    /\ record_pc = "line"
    /\ record_parsed' = <<TryFrom(record_line)>>
    /\ record_pc' = "parsed"
    /\ UNCHANGED <<record_package, record_line, record_formatted>>
    /\ UNCHANGED <<list_vars, sync_vars, install_vars, catalog_vars, call_vars>>

\* String::from(&parsed)
FormatParsed ==
    /\ record_pc = "parsed"
    /\ record_parsed[1] # ParseError
    /\ record_formatted' = <<Format(record_parsed[1][1])>>
    /\ record_pc' = "formatted"
    /\ UNCHANGED <<record_package, record_line, record_parsed>>
    /\ UNCHANGED <<list_vars, sync_vars, install_vars, catalog_vars, call_vars>>

RecordNext == FormatPackage \/ ParseLine \/ FormatParsed

RecordSpec == RecordInit /\ [][RecordNext]_vars

(***************************************************************************)
(* The functions of packages.rs, available_packages.rs and dependencies.rs *)
(* that compute a value from their arguments alone, each called on its own. *)
(***************************************************************************)

A == <<"a">>
B == <<"b">>
AB == <<"a", "b">>
VERSION2 == <<"2">>
VERSION10 == <<"1", "0">>
OTHER_NAME == <<"o", "t", "h", "e", "r">>
NOT_THERE == <<"n", "o", "t", "_", "t", "h", "e", "r", "e">>
TEST == <<"t", "e", "s", "t">>
PACKAGE == <<"p", "a", "c", "k", "a", "g", "e">>
SHELL == <<"s", "h", "e", "l", "l">>

\* The fields of a record other than its first name and its version.
OtherFields ==
    {[repository |-> "Msys", aliases |-> <<>>, compression |-> <<"ZSTD">>,
      arch |-> <<ANY>>, dependencies |-> <<<<DEP1, DEP2>>>>],
     [repository |-> "Mingw64", aliases |-> <<B>>, compression |-> <<"XZ">>,
      arch |-> <<X86_64>>, dependencies |-> <<>>],
     [repository |-> "Msys", aliases |-> <<>>, compression |-> <<>>,
      arch |-> <<>>, dependencies |-> <<<<>>>>]}

PackageWith(name, version, o) ==
    Package(o.repository, <<name>> \o o.aliases, version, o.compression, o.arch,
            o.dependencies)

ComparedPackages ==
    {PackageWith(name, version, o) :
        name \in {A, B, AB}, version \in {VERSION1, VERSION2, VERSION10}, o \in OtherFields}

Provider(names, version) ==
    Package("Msys", names, version, <<"ZSTD">>, <<ANY>>, <<>>)

\* Records of the name "name" under it or under an alias of another record,
\* and records of "other".
Providers ==
    {Provider(<<NAME>>, <<"1", ".", "0">>),
     Provider(<<NAME>>, <<"1", ".", "2">>),
     Provider(<<NAME>>, <<"1", ".", "1", "0">>),
     Provider(<<ALTNAME, NAME>>, <<"1", ".", "2">>),
     Provider(<<ALTNAME, NAME>>, <<"1", ".", "0">>),
     Provider(<<OTHER_NAME>>, <<"0", ".", "9">>),
     Provider(<<OTHER_NAME, NAME>>, <<"1", ".", "2">>)}

MaxSetSize == 3

\* The values of a BTreeSet<Package>: no two elements compare Equal.
PackageSets ==
    {set \in SUBSET Providers :
        /\ Cardinality(set) <= MaxSetSize
        /\ \A p, q \in set : p # q => PkgCmp(p, q) # 0}

\* Dependency tokens: a name, then nothing or a constraint that starts with
\* one of the operator characters.
TokenNames == {TEST, PACKAGE, NAME, SH, BASH, SHELL, <<>>}

TokenTails ==
    {<<>>, <<"=", "1", ".", "0">>, <<">", "=", "1", ".", "0">>, <<"~", "1">>,
     <<"#", "1">>, <<"*">>, <<">", "s", "h">>, <<"=", "a", "=", "b">>}

\* The records the tokens are looked up in: bash, a record named sh, and two
\* versions of name.
Resolvable ==
    {Provider(<<BASH>>, VERSION1), Provider(<<SH>>, VERSION1),
     Provider(<<NAME>>, <<"1", ".", "0">>), Provider(<<NAME>>, <<"1", ".", "2">>)}

MaxTokens == 2

\* Lists of one to MaxTokens tokens, each kept as its name and its tail.
TokenLists ==
    UNION {[1..k -> {NAME, SH, TEST} \X {<<>>, <<"=", "1", ".", "0">>, <<">", "=", "1", ".", "0">>}] :
              k \in 1..MaxTokens}

\* The package that declares the tokens of a list.
Dependent(tokens) ==
    Package("Msys", <<PACKAGE>>, VERSION1, <<"ZSTD">>, <<ANY>>,
            <<[i \in 1..Len(tokens) |-> tokens[i][1] \o tokens[i][2]]>>)

\* Numbers of declared dependencies around the limits of an i8, and -1 for a
\* record whose dependencies are not known (None).
DependencyCounts == {-1, 0, 1, 2, 127, 128, 129, 256}

\* A record that declares n dependencies.
Declaring(name, n) ==
    Package("Msys", <<name>>, VERSION1, <<"ZSTD">>, <<ANY>>,
            IF n < 0 THEN <<>> ELSE <<[i \in 1..n |-> TEST]>>)

CallInit ==
    /\ ListIdle
    /\ SyncIdle
    /\ InstallIdle
    /\ CatalogIdle
    /\ RecordIdle
    /\ call_result = <<>>
    /\ \/ /\ call_function \in {"eq", "ne", "cmp", "partial_cmp"}
          /\ call_args \in {<<p, q>> : p, q \in ComparedPackages}
       \/ /\ call_function = "latest_version"
          /\ call_args \in {<<name, set>> : name \in {NAME, ALTNAME, OTHER_NAME, NOT_THERE},
                                             set \in PackageSets}
       \/ /\ call_function = "dependency_name"
          /\ call_args \in {<<name, tail>> : name \in TokenNames, tail \in TokenTails}
       \/ /\ call_function = "dependencies"
          /\ call_args \in {<<tokens, available>> : tokens \in TokenLists,
                                                    available \in SUBSET Resolvable}
       \/ /\ call_function = "sort_by_key"
          /\ call_args \in {<<Declaring(A, m), Declaring(B, n)>> : m, n \in DependencyCounts}

CallEq ==
    /\ call_function = "eq"
    /\ call_result = <<>>
    /\ call_result' = <<PkgEq(call_args[1], call_args[2])>>
    /\ UNCHANGED <<call_function, call_args>>
    /\ UNCHANGED <<list_vars, sync_vars, install_vars, catalog_vars, record_vars>>

CallNe ==
    /\ call_function = "ne"
    /\ call_result = <<>>
    /\ call_result' = <<PkgNe(call_args[1], call_args[2])>>
    /\ UNCHANGED <<call_function, call_args>>
    /\ UNCHANGED <<list_vars, sync_vars, install_vars, catalog_vars, record_vars>>

CallCmp ==
    /\ call_function = "cmp"
    /\ call_result = <<>>
    /\ call_result' = <<PkgCmp(call_args[1], call_args[2])>>
    /\ UNCHANGED <<call_function, call_args>>
    /\ UNCHANGED <<list_vars, sync_vars, install_vars, catalog_vars, record_vars>>

CallPartialCmp ==
    /\ call_function = "partial_cmp"
    /\ call_result = <<>>
    /\ call_result' = <<PkgPartialCmp(call_args[1], call_args[2])>>
    /\ UNCHANGED <<call_function, call_args>>
    /\ UNCHANGED <<list_vars, sync_vars, install_vars, catalog_vars, record_vars>>

CallLatestVersion ==
    /\ call_function = "latest_version"
    /\ call_result = <<>>
    /\ call_result' = <<latest_version(call_args[1], call_args[2])>>
    /\ UNCHANGED <<call_function, call_args>>
    /\ UNCHANGED <<list_vars, sync_vars, install_vars, catalog_vars, record_vars>>

\* The token handed to dependency_name is the name followed by its tail.
CallDependencyName ==
    /\ call_function = "dependency_name"
    /\ call_result = <<>>
    /\ call_result' = <<dependency_name(call_args[1] \o call_args[2])>>
    /\ UNCHANGED <<call_function, call_args>>
    /\ UNCHANGED <<list_vars, sync_vars, install_vars, catalog_vars, record_vars>>

\* The closure of list that resolves the tokens of the front package
\* (dependencies.rs lines 26-54), with nothing installed and nothing processed.
CallDependencies ==
    /\ call_function = "dependencies"
    /\ call_result = <<>>
    /\ call_result' = <<MissingDependencies(Dependent(call_args[1]), {}, call_args[2], <<>>)>>
    /\ UNCHANGED <<call_function, call_args>>
    /\ UNCHANGED <<list_vars, sync_vars, install_vars, catalog_vars, record_vars>>

\* The sort of the missing dependencies (dependencies.rs lines 62-69).  With
\* overflow checks (a debug build) the product -1 * i8::MIN panics; without
\* them it wraps.
CallSortByKey ==
    /\ call_function = "sort_by_key"
    /\ call_result = <<>>
    /\ \E overflow_checks \in BOOLEAN :
          call_result' =
             IF overflow_checks /\ \E i \in 1..Len(call_args) : KeyOverflows(call_args[i])
             THEN <<"panic">>
             ELSE <<SortByKey(call_args)>>
    /\ UNCHANGED <<call_function, call_args>>
    /\ UNCHANGED <<list_vars, sync_vars, install_vars, catalog_vars, record_vars>>

CallNext ==
    \/ CallSortByKey
    \/ CallEq
    \/ CallNe
    \/ CallCmp
    \/ CallPartialCmp
    \/ CallLatestVersion
    \/ CallDependencyName
    \/ CallDependencies

CallSpec == CallInit /\ [][CallNext]_vars

(***************************************************************************)
(* Properties of dependencies::list                                        *)
(***************************************************************************)

\* The available packages the dependency tokens of p resolve to.
Resolved(p) ==
    IF p.dependencies = <<>> THEN {}
    ELSE {latest_version(dependency_name(p.dependencies[1][i]), available_packages)[1] :
            i \in {j \in 1..Len(p.dependencies[1]) :
                     latest_version(dependency_name(p.dependencies[1][j]),
                                    available_packages) # <<>>}}

\* The packages reachable from the set S along resolved dependencies.
RECURSIVE DependencyClosure(_)
DependencyClosure(S) ==
    LET next == S \cup UNION {Resolved(x) : x \in S}
    IN  IF next = S THEN S ELSE DependencyClosure(next)

\* d depends on p, directly or transitively.
DependsOn(d, p) == \E q \in DependencyClosure(Resolved(d)) : PkgEq(q, p)

Acyclic == \A p \in available_packages : ~DependsOn(p, p)

\* The positions of package p in the output.
Positions(p) == {i \in 1..Len(processed) : PkgEq(processed[i], p)}

\* d is in the output, before p.
Before(d, p) == \E i \in Positions(d) : \A j \in Positions(p) : i < j

\* The dependencies of p that resolve and are not installed.
Missing(p) == {d \in Resolved(p) : ~Contains(installed_packages, d)}

C7_DependenciesFirstExceptAcrossCycles ==
    list_pc = "done" =>
        \A i \in 1..Len(processed) :
            \A d \in Missing(processed[i]) :
                ~DependsOn(d, processed[i]) => Before(d, processed[i])

\* The quantity that grows with every iteration: a new snapshot outweighs the
\* dependencies an expansion pushes, and a consumed package shortens the deque.
ListVariant ==
    (Cardinality(available_packages) + 1) * Cardinality(snapshots) - Len(packages)

\* C8: every call of list returns: every iteration of the loop increases
\* ListVariant, which the finitely many snapshots and deques bound, so no
\* sequence of iterations is infinite and the deque ends empty.
C8_ListTerminates == [][ListLoop => ListVariant' > ListVariant]_vars

\* A call on a graph with a cycle has returned.
C8_Witness ==
    /\ list_pc = "done"
    /\ \E p \in Range(processed) : DependsOn(p, p)

\* C9: the output never holds two packages equal by (name, version).
C9_NoDuplicates ==
    \A i, j \in 1..Len(processed) : PkgEq(processed[i], processed[j]) => i = j

\* A root listed twice, or a root that another root depends on, has been output.
C9_Witness ==
    /\ list_pc = "done"
    /\ Len(roots) = 2
    /\ \/ PkgEq(roots[1], roots[2])
       \/ roots[2] \in Resolved(roots[1])

\* C10: the output holds every root, and besides the roots only resolvable
\* dependencies (of packages of the output) that are not installed; when every
\* dependency of a single root is installed the output is that root alone.
C10_NoInstalledDependency ==
    list_pc = "done" =>
        /\ \A r \in Range(roots) : Contains(Range(processed), r)
        /\ \A i \in 1..Len(processed) :
              \/ Contains(Range(roots), processed[i])
              \/ /\ ~Contains(installed_packages, processed[i])
                 /\ \E j \in 1..Len(processed) : processed[i] \in Resolved(processed[j])
        /\ (Len(roots) = 1 /\ Missing(roots[1]) = {}) => processed = roots

\* package1 depends on package2, package2 is installed, the roots are [package1].
C10_Witness ==
    /\ list_pc = "done"
    /\ Len(roots) = 1
    /\ Cardinality(Resolved(roots[1])) = 1
    /\ Resolved(roots[1]) \subseteq installed_packages
    /\ processed = roots

(***************************************************************************)
(* Properties of the available cache                                       *)
(***************************************************************************)

\* The records of repository r among a set of packages.
Section(set, r) == {it \in set : it.repository = r}

\* The last call reached the sync (no freshness shortcut) with a readable
\* cache whose header lists every enabled repository.
SyncedFromFullCache(call) ==
    /\ ~call.fresh
    /\ get_packages_from_file(call.before) # <<>>
    /\ DOMAIN get_repository_versions_from_file(call.before) = Range(Enabled)

\* The repositories whose remote ETag was obtained and differs from the cached one.
Changed(call) ==
    {r \in Range(Enabled) :
        /\ call.etags[r] # <<>>
        /\ call.etags[r][1] # get_repository_versions_from_file(call.before)[r].etag}

\* The case of C1: every repository changed, some fetches failed, at least one
\* succeeded, and the file was written.
PartialFailureOfFullSync(call) ==
    /\ SyncedFromFullCache(call)
    /\ Changed(call) = Range(Enabled)
    /\ \E r \in Range(Enabled) : call.remote[r] = <<>>
    /\ \E r \in Range(Enabled) : call.remote[r] # <<>>
    /\ call.saveOk

\* C1: after a full sync in which some repositories failed and at least one
\* succeeded, the file written lists every enabled repository, with the new
\* ETag and the fetched records for each repository that synced and the cached
\* ETag and the cached records for each repository that failed.
C1_PartialFailureKeepsCachedEntries ==
    \A i \in 1..Len(sync_call) :
        LET call == sync_call[i]
            before == get_repository_versions_from_file(call.before)
            after == get_repository_versions_from_file(available_file)
            old == get_packages_from_file(call.before)
            new == get_packages_from_file(available_file)
        IN  PartialFailureOfFullSync(call) =>
                /\ new # <<>>
                /\ DOMAIN after = Range(Enabled)
                /\ \A r \in Range(Enabled) :
                     IF call.remote[r] # <<>>
                     THEN /\ after[r] = call.remote[r][1].version
                          /\ Section(new[1], r) = Range(call.remote[r][1].list)
                     ELSE /\ after[r] = before[r]
                          /\ Section(new[1], r) = Section(old[1], r)

\* The case of C2: some, not all, repositories need syncing and every fetch
\* that is attempted fails.
EveryAttemptOfPartialSyncFailed(call) ==
    /\ SyncedFromFullCache(call)
    /\ Changed(call) # {}
    /\ Changed(call) # Range(Enabled)
    /\ \A r \in Changed(call) : call.remote[r] = <<>>

\* C2: when some, not all, repositories need syncing and every attempted fetch
\* fails, the call returns exactly the set parsed from the cached file and
\* leaves the file as it was.
C2_FailedPartialSyncReturnsCache ==
    \A i \in 1..Len(sync_call) :
        LET call == sync_call[i]
        IN  EveryAttemptOfPartialSyncFailed(call) =>
                /\ call.status = "returned"
                /\ call.returned = get_packages_from_file(call.before)[1]
                /\ available_file = call.before

(***************************************************************************)
(* Properties of the install and update transactions                       *)
(***************************************************************************)

\* install_package(package, false) is running or has just returned.
InNormalInstall ==
    /\ run.package # <<>>
    /\ run.transaction = "install"
    /\ ~run.setup

\* The marker holds the line `command` followed by the record of the package.
MarkerNames(command, package) ==
    /\ pending_file # <<>>
    /\ pending_file[1].encoding = "raw"
    /\ RawLines(pending_file[1]) = <<<<command, Format(package)>>>>
    /\ ReadPending(pending_file) # <<>>
    /\ PkgEq(ReadPending(pending_file)[1].package, package)

InstallErrors == {"download", "decompress", "extract", "record"}

\* C3: when install_package returns in normal mode, the marker does not exist
\* after a success, and after an error of the download, the decompression, the
\* extraction or the append it holds the line install followed by the record
\* of that package and nothing else.
C3_MarkerAfterInstallPackage ==
    (InNormalInstall /\ run.pc = "return") =>
        /\ run.result = "Ok" => pending_file = <<>>
        /\ run.result \in InstallErrors => MarkerNames(INSTALL, run.package[1])

\* A normal install_package returns an error after an earlier normal
\* install_package of the same command returned Ok and deleted its marker.
C3_Witness ==
    /\ InNormalInstall
    /\ run.pc = "return"
    /\ run.result \in InstallErrors
    /\ \E i \in 1..(Len(run.started) - 1) :
          run.started[i].transaction = "install" /\ ~run.started[i].setup
    /\ pending_file # <<>>

\* The positions of a step in the steps done so far by the transaction.
StepsOf(name) == {i \in 1..Len(run.trace) : run.trace[i] = name}

\* C4: in a normal install_package the marker is written before any entry of
\* the archive is written to the root, the append comes after every written
\* entry and after the hook, the marker is deleted only after the append, and
\* whenever an entry has been written and the append has not happened the
\* marker exists and names the package.
C4_MarkerBracketsInstall ==
    InNormalInstall =>
        /\ \A i \in StepsOf("extract") : \E j \in StepsOf("marker") : j < i
        /\ \A i \in StepsOf("append") :
              /\ \A j \in StepsOf("extract") \cup StepsOf("hook") : j < i
              /\ run.pc \notin {"extract", "hook"}
        /\ \A i \in StepsOf("remove") : \E j \in StepsOf("append") : j < i
        /\ (StepsOf("extract") # {} /\ StepsOf("append") = {}) =>
              MarkerNames(INSTALL, run.package[1])
        /\ (root_files # {} /\ run.pc \in {"extract", "hook", "record"}) =>
              MarkerNames(INSTALL, run.package[1])

\* An entry of the archive is on disk, a further one is being extracted, and
\* the append has not happened.
C4_Witness ==
    /\ InNormalInstall
    /\ run.pc = "extract"
    /\ StepsOf("extract") # {}
    /\ StepsOf("append") = {}
    /\ root_files # {}

\* The step of check_for_pending_installation on a marker that parses as
\* install or update followed by a record.
ReplayAsked ==
    /\ run.pc = "check"
    /\ ReadPending(pending_file) # <<>>
    /\ ReadPending(pending_file)[1].command \in {INSTALL, UPDATE}
    /\ run'.pc # "crash"

\* The step in which the install or update call of a replay returns.
ReplayReturns ==
    /\ run.nested
    /\ run'.pc = "resolve"

CatalogLines(file) ==
    IF ZstdRead(file) = <<>> THEN <<>>
    ELSE LET lines == Lines(ZstdRead(file)[1])
         IN  [i \in 1..(IF Len(lines) = 0 THEN 0 ELSE Len(lines) - 1) |-> lines[i + 1]]

\* The records of the installed file, in the order of the file.
CatalogRecords(file) ==
    LET lines == CatalogLines(file)
        parsed == {i \in 1..Len(lines) : TryFrom(lines[i]) # ParseError}
    IN  [i \in parsed |-> TryFrom(lines[i])[1]]

\* C11: the installed catalog never holds two records of the same package
\* name.
C11_OneRecordPerName ==
    \A i, j \in DOMAIN CatalogRecords(installed_file) :
        i # j => Name(CatalogRecords(installed_file)[i]) # Name(CatalogRecords(installed_file)[j])

\* The file was written by append_package and holds a record of the name of
\* the package with another version.
HoldsOtherVersion(file, package) ==
    /\ ZstdRead(file) # <<>>
    /\ \E i \in DOMAIN CatalogRecords(file) :
          /\ Name(CatalogRecords(file)[i]) = Name(package)
          /\ CatalogRecords(file)[i].version # package.version

\* The records of `before` with each record that has the name of the package
\* replaced by the package.
Replaced(before, package) ==
    [i \in DOMAIN CatalogRecords(before) |->
        IF Matches(CatalogRecords(before)[i], Name(package)) THEN package
        ELSE CatalogRecords(before)[i]]

\* C12: replace_package called on a catalog written by append_package returns
\* Ok and writes a ZSTD frame in which every record of the name of the package
\* is the new record and every other record is kept, so that the catalog read
\* back holds exactly one record of that name, the new one.
C12_ReplaceRewritesRecord ==
    \A i \in 1..Len(catalog_calls) :
        LET call == catalog_calls[i]
        IN  (call.function = "replace_package"
                /\ HoldsOtherVersion(call.before, call.package)) =>
               /\ call.result # <<>>
               /\ ZstdRead(call.result) # <<>>
               /\ CatalogRecords(call.result) = Replaced(call.before, call.package)
               /\ {q \in installed_get_packages(call.result) : Name(q) = Name(call.package)}
                     = {call.package}

\* C13: when update_package reaches its replace step for a package of which
\* the catalog, written by append_package, records another version, the step
\* returns Ok and leaves the new record in place of the old one; and when
\* update_package has returned Ok the marker does not exist.
C13_UpdateReplacesRecord ==
    /\ (run.pc = "record" /\ run.transaction = "update"
            /\ HoldsOtherVersion(installed_file, run.package[1])) =>
          /\ replace_package(installed_file, run.package[1]) # <<>>
          /\ {q \in installed_get_packages(replace_package(installed_file, run.package[1])) :
                 Name(q) = Name(run.package[1])} = {run.package[1]}
    /\ (run.pc = "return" /\ run.transaction = "update" /\ run.result = "Ok") =>
          pending_file = <<>>

\* Every call so far is an append_package that returned Ok.
OnlyAppends ==
    \A i \in 1..Len(catalog_calls) :
        catalog_calls[i].function = "append_package" /\ catalog_calls[i].result # <<>>

\* C14: starting from a missing or empty installed file, after successful
\* appends only, every append has kept the records that were there and added
\* its own, and the catalog read back contains every appended package.
C14_AppendsAreKept ==
    OnlyAppends =>
        /\ \A i \in 1..Len(catalog_calls) :
              /\ CatalogLines(catalog_calls[i].result)
                    = Append(CatalogLines(catalog_calls[i].before),
                             Format(catalog_calls[i].package))
              /\ Contains(installed_get_packages(installed_file), catalog_calls[i].package)
        /\ catalog_calls # <<>> => get_packages_from_file(installed_file) # <<>>

\* Three different packages have been appended to a catalog that did not exist.
C14_Witness ==
    /\ OnlyAppends
    /\ Len(catalog_calls) = MaxCatalogCalls
    /\ catalog_calls[1].before = <<>>
    /\ \A i, j \in 1..Len(catalog_calls) :
          i # j => ~PkgEq(catalog_calls[i].package, catalog_calls[j].package)
    /\ run.pc = "idle"

(***************************************************************************)
(* Further properties of the available cache                               *)
(***************************************************************************)

\* C15: a call on a readable cache older than one hour whose header lists
\* every enabled repository, in which each remote ETag equals the cached one
\* or could not be obtained, calls remote_packages for no repository, leaves
\* the file as it was and returns the set parsed from the cache.
C15_NothingToSync ==
    \A i \in 1..Len(sync_call) :
        LET call == sync_call[i]
        IN  (SyncedFromFullCache(call) /\ Changed(call) = {}) =>
                /\ call.status = "returned"
                /\ call.calls = <<>>
                /\ available_file = call.before
                /\ call.returned = get_packages_from_file(call.before)[1]

\* Such a call in which one ETag request failed and another one returned the
\* cached ETag, after the remote database of the first changed.
C15_Witness ==
    /\ sync_call # <<>>
    /\ SyncedFromFullCache(sync_call[1])
    /\ Changed(sync_call[1]) = {}
    /\ \E r \in Range(Enabled) :
          /\ sync_call[1].etags[r] = <<>>
          /\ RemoteEtag(r, remote_generation[r])
                # get_repository_versions_from_file(sync_call[1].before)[r].etag
    /\ \E r \in Range(Enabled) : sync_call[1].etags[r] # <<>>

\* C16: a call that finds no readable cache returns only after every enabled
\* repository was fetched, and then returns all their packages; if a fetch
\* fails the process exits with code 1 and the file is left as it was; the
\* file is written with the packages of every repository or not at all.
C16_NoCacheFetchesAllOrExits ==
    \A i \in 1..Len(sync_call) :
        LET call == sync_call[i]
        IN  get_packages_from_file(call.before) = <<>> =>
                /\ call.status \in {"returned", "exit"}
                /\ (\E r \in Range(Enabled) : call.remote[r] = <<>>) =>
                      call.status = "exit" /\ available_file = call.before
                /\ call.status = "returned" =>
                      /\ call.calls = Enabled
                      /\ call.returned =
                            UNION {Range(call.remote[r][1].list) : r \in Range(Enabled)}
                /\ available_file # call.before =>
                      /\ call.status = "returned"
                      /\ get_packages_from_file(available_file) = <<call.returned>>

\* A call found a cache whose header is readable and whose records are not,
\* a fetch failed and the process exited.
C16_Witness ==
    /\ sync_call # <<>>
    /\ get_packages_from_file(sync_call[1].before) = <<>>
    /\ DOMAIN get_repository_versions_from_file(sync_call[1].before) = Range(Enabled)
    /\ \E r \in Range(Enabled) : sync_call[1].remote[r] = <<>>
    /\ sync_call[1].status = "exit"

\* The repositories of the header line of a file, in the order of the header.
HeaderRepositories(file) ==
    IF HeaderChunks(file) = <<>> THEN <<>>
    ELSE [i \in 1..Len(HeaderChunks(file)[1]) |-> RepositoryFrom(HeaderChunks(file)[1][i][1])]

\* The repositories of the record lines of a file, one entry per run of
\* consecutive records of one repository.
SectionRepositories(file) ==
    LET records == CatalogRecords(file)
        first == {i \in DOMAIN records :
                     i = 1 \/ i - 1 \notin DOMAIN records
                           \/ records[i - 1].repository # records[i].repository}
    IN  [k \in 1..Cardinality(first) |->
            <<records[CHOOSE i \in first : Cardinality({j \in first : j <= i}) = k].repository>>]

C18_FormatParseFormat ==
    record_package # <<>> =>
        /\ record_pc \in {"parsed", "formatted"} => record_parsed[1] # ParseError
        /\ record_pc = "formatted" => record_formatted[1] = record_line

\* C19: a line written field by field, with "+" after the architecture or
\* directly after the compression and with or without tokens after "+",
\* parses, and the parsed record is formatted to the same line.
C19_ParseFormat ==
    (record_package = <<>> /\ record_line \in RecordLines) =>
        /\ record_pc \in {"parsed", "formatted"} => record_parsed[1] # ParseError
        /\ record_pc = "formatted" => record_formatted[1] = record_line

\* C20: the line msys, name, version, zst, +, dep1, dep2=1, dep3>3.2, dep4
\* parses to a record with compression ZSTD, the four tokens as dependencies,
\* no architecture and no URL.
C20_PlusAfterCompression ==
    (record_pc \in {"parsed", "formatted"} /\ record_line = TestLine) =>
        /\ record_parsed[1] # ParseError
        /\ record_parsed[1][1].compression = <<"ZSTD">>
        /\ record_parsed[1][1].dependencies = <<TestDependencies>>
        /\ record_parsed[1][1].arch = <<>>
        /\ url(record_parsed[1][1]) = <<>>

\* C21: try_from returns ParseError, never a package, for the empty string,
\* for a line of one or two fields, for a first field that names no enabled
\* repository and for a fourth field that names no compression.
C21_RefusedLines ==
    (record_pc = "parsed" /\ record_line \in RefusedLines) =>
        record_parsed[1] = ParseError

C21_Witness ==
    /\ record_pc = "parsed"
    /\ record_line \in UnknownCompressionLines
    /\ record_parsed[1] = ParseError

(***************************************************************************)
(* Properties of the comparison of records, of latest_version and of       *)
(* dependency_name                                                         *)
(***************************************************************************)

SameKey(p, q) == p.names[1] = q.names[1] /\ p.version = q.version

\* C22: eq is true exactly for two records with the same first name and the
\* same version, whatever their other fields, and ne is its negation; cmp
\* orders by the first name and then by the version, as strings, and is
\* Equal exactly for equal records; partial_cmp agrees with cmp.
C22_EqualityAndOrdering ==
    (call_function \in {"eq", "ne", "cmp", "partial_cmp"} /\ call_result # <<>>) =>
        LET p == call_args[1]
            q == call_args[2]
            byName == StrCmp(p.names[1], q.names[1])
            ordering == IF byName # 0 THEN byName ELSE StrCmp(p.version, q.version)
        IN  /\ call_function = "eq" => call_result[1] = SameKey(p, q)
            /\ call_function = "ne" => call_result[1] = ~SameKey(p, q)
            /\ call_function = "cmp" =>
                /\ call_result[1] = ordering
                /\ call_result[1] = 0 <=> SameKey(p, q)
            /\ call_function = "partial_cmp" => call_result[1] = <<ordering>>

\* Two records that differ in every field but the first name and the version
\* were compared with eq and found equal.
C22_Witness ==
    /\ call_function = "eq"
    /\ call_result = <<TRUE>>
    /\ call_args[1].repository # call_args[2].repository
    /\ call_args[1].names # call_args[2].names
    /\ call_args[1].compression # call_args[2].compression
    /\ call_args[1].arch # call_args[2].arch
    /\ call_args[1].dependencies # call_args[2].dependencies

MatchingRecords(name, set) == {p \in set : name \in Range(p.names)}

\* C23: latest_version returns None exactly when no record of the set has the
\* name among its names; otherwise it returns a record of the set that has
\* the name among its names and whose version no matching record exceeds.
C23_LatestVersion ==
    (call_function = "latest_version" /\ call_result # <<>>) =>
        LET matching == MatchingRecords(call_args[1], call_args[2])
            latest == call_result[1]
        IN  /\ latest = <<>> <=> matching = {}
            /\ latest # <<>> =>
                /\ latest[1] \in matching
                /\ \A p \in matching : StrCmp(p.version, latest[1].version) <= 0

\* The name is provided by three records, under an alias for one of them, and
\* the record returned is not the one compared last.
C23_Witness ==
    /\ call_function = "latest_version"
    /\ call_result # <<>>
    /\ call_args[1] = NAME
    /\ Cardinality(MatchingRecords(NAME, call_args[2])) = 3
    /\ call_result[1] = <<Provider(<<ALTNAME, NAME>>, <<"1", ".", "2">>)>>

\* C24: when several matching records have the maximal version, the record
\* returned is the first of them in the order of the set.
C24_FirstOfTies ==
    (call_function = "latest_version" /\ call_result # <<>> /\ call_result[1] # <<>>) =>
        \A p \in MatchingRecords(call_args[1], call_args[2]) :
            p.version = call_result[1][1].version => PkgCmp(call_result[1][1], p) <= 0

ReducedName(name) == IF name = <<"s", "h">> THEN <<"b", "a", "s", "h">> ELSE name

\* The records of a set under a name, with the greatest version.
LatestUnder(name, set) ==
    {p \in MatchingRecords(name, set) :
        \A q \in MatchingRecords(name, set) : StrCmp(q.version, p.version) <= 0}

\* C30: dependency_name reduces a token to the text before the first of the
\* characters = > ~ # *, and gives bash for the reduced name sh; the resolver
\* looks the tokens of a package up under their reduced names only: the
\* dependencies it finds are, token by token, the latest records under the
\* reduced names, and a token whose reduced name has no record gives none.
C30_DependencyName ==
    /\ (call_function = "dependency_name" /\ call_result # <<>>) =>
            call_result[1] = ReducedName(call_args[1])
    /\ (call_function = "dependencies" /\ call_result # <<>>) =>
            LET tokens == call_args[1]
                resolved == SelectSeq([i \in 1..Len(tokens) |-> ReducedName(tokens[i][1])],
                                LAMBDA name : MatchingRecords(name, call_args[2]) # {})
                found == IF call_result[1] = <<>> THEN <<>> ELSE call_result[1][1]
            IN  /\ Len(found) = Len(resolved)
                /\ \A i \in 1..Len(found) : found[i] \in LatestUnder(resolved[i], call_args[2])

\* The token sh>=1.0 was reduced, and the result is bash.
C30_Witness ==
    /\ call_function = "dependency_name"
    /\ call_args = <<SH, <<">", "=", "1", ".", "0">>>>
    /\ call_result = <<BASH>>

\* p declares a dependency token that has no record in the available set.
HasUnknownDependency(p) ==
    /\ p.dependencies # <<>>
    /\ \E i \in 1..Len(p.dependencies[1]) :
          \A q \in available_packages : p.dependencies[1][i] \notin Range(q.names)

SetupPositions == {i \in 1..Len(run.started) : run.started[i].setup}

FirstSetup == CHOOSE i \in SetupPositions : \A j \in SetupPositions : i <= j

LastSetup == CHOOSE i \in SetupPositions : \A j \in SetupPositions : i >= j

\* The position of the last transaction of the loop that installs again, in
\* normal mode, what the setup loop extracted.
LastReinstall == LastSetup + (LastSetup - FirstSetup + 1)

StartedNames(positions) == {Name(run.started[i].package) : i \in positions}

\* The first install command on an empty root stands in install().
FirstInstall == commands = 1 /\ run.function = "install"

\* C26: during an install command on a root without bash, info and coreutils,
\* (1) bash is installed in normal mode before anything is extracted in setup
\* mode; (2) the setup transactions follow one another and cover info and
\* coreutils; (3) the transactions after them are, in the same order, normal
\* installations of the same packages; (4) the loop of the requested packages
\* is entered only when all of these were started, and installs each
\* requested package after them.
C26_BootstrapOrder ==
    FirstInstall =>
        /\ \A i \in 1..Len(run.started) : run.started[i].transaction = "install"
        /\ \A i \in SetupPositions :
              \E j \in 1..(i - 1) :
                  Name(run.started[j].package) = BASH /\ ~run.started[j].setup
        /\ \A i, j \in SetupPositions : \A k \in i..j : k \in SetupPositions
        /\ run.phase \in {"normal", "requested"} =>
              {INFO, COREUTILS} \subseteq StartedNames(SetupPositions)
        /\ SetupPositions # {} =>
              /\ \A k \in (LastSetup + 1)..Len(run.started) :
                    k <= LastReinstall =>
                        run.started[k].package =
                            run.started[k - (LastSetup - FirstSetup + 1)].package
              /\ run.phase # "requested" => Len(run.started) <= LastReinstall
              /\ run.phase = "requested" => Len(run.started) >= LastReinstall
        /\ (run.phase = "requested" /\ run.pc = "next" /\ run.queue = <<>>) =>
              \A p \in run.requested :
                  Name(p) \in StartedNames((LastReinstall + 1)..Len(run.started))

\* `install g` on an empty root is about to return: bash, then info and
\* coreutils extracted, then info and coreutils installed, then g.
C26_Witness ==
    /\ FirstInstall
    /\ run.phase = "requested" /\ run.pc = "next" /\ run.queue = <<>>
    /\ [i \in 1..Len(run.started) |-> Name(run.started[i].package)]
          = <<BASH, INFO, COREUTILS, INFO, COREUTILS, G>>
    /\ [i \in 1..Len(run.started) |-> run.started[i].setup]
          = <<FALSE, TRUE, TRUE, FALSE, FALSE, FALSE>>

\* install_package(.., setup = true) is running or has just returned.
InSetupInstall ==
    /\ run.setup
    /\ run.pc \in {"marker", "download", "decompress", "extract", "hook", "record",
                   "remove", "return"}

HasInstallScript(files) == \E node \in files : node.path = DOT_INSTALL

\* C25: no step of install_package in setup mode changes the pending file, the
\* installed catalog or its backup, puts .INSTALL below the root, or is the
\* marker, hook, append or removal step, whether the call succeeds or fails.
C25_SetupLeavesCatalogAlone ==
    [][InSetupInstall =>
          /\ pending_file' = pending_file
          /\ installed_file' = installed_file
          /\ backup_file' = backup_file
          /\ HasInstallScript(root_files') => HasInstallScript(root_files)
          /\ run'.setup => run'.pc \notin {"marker", "hook", "record", "remove"}]_vars

\* info, whose archive holds .INSTALL, was extracted in setup mode and
\* install_package returned Ok.
C25_Witness ==
    /\ InSetupInstall
    /\ run.pc = "return"
    /\ run.result = "Ok"
    /\ \E i \in 1..Len(Archive(run.package[1])) : Archive(run.package[1])[i].path = DOT_INSTALL
    /\ run.trace # <<>>
    /\ \A i \in 1..Len(run.trace) : run.trace[i] \in {"download", "decompress", "extract"}

\* install_package or update_package has returned an error to its loop.
FailedCall == run.pc = "return" /\ run.result # "Ok"

RecordedPackages(file) ==
    {CatalogRecords(file)[i] : i \in DOMAIN CatalogRecords(file)}

\* C27: when install_package or update_package returns an error, the command
\* exits with code 1 as its next step, without starting another transaction
\* and without touching a file; the step on which the call fails and the exit
\* keep every record the catalog held.
C27_FailureAborts ==
    [][/\ (FailedCall /\ run'.pc # "crash") =>
             /\ run'.pc = "exit"
             /\ run'.queue = <<>>
             /\ run'.started = <<>>
             /\ pending_file' = pending_file
             /\ root_files' = root_files
       /\ (FailedCall \/ (run'.pc = "return" /\ run'.result # "Ok")) =>
             RecordedPackages(installed_file) \subseteq RecordedPackages(installed_file')
      ]_vars

\* A call failed after an earlier package of the command was recorded, with
\* packages of the order still to come.
C27_Witness ==
    /\ FailedCall
    /\ Len(run.queue) > 1
    /\ RecordedPackages(installed_file) # {}
    /\ \E i \in 1..(Len(run.started) - 1) :
          run.started[i].package \in RecordedPackages(installed_file)

\* The records the repositories offer.
Offered ==
    UNION {Range(RemotePackages(r, remote_generation[r]).list) : r \in Range(Enabled)}

\* The update command has gone through its loop and is about to return.
UpdateOver ==
    /\ run.command = "update"
    /\ run.function = "update"
    /\ run.phase = "update"
    /\ run.pc = "next"
    /\ run.queue = <<>>

UpdateStartedFor(name) ==
    \E i \in 1..Len(run.started) :
        run.started[i].transaction = "update" /\ name \in Range(run.started[i].package.names)

\* An installed record of which the repositories offer another version.
Outdated(q) ==
    \E p \in Offered : Name(p) = Name(q) /\ p.version # q.version

\* C28: the update command with names runs an update transaction for each
\* listed package that is not installed in its offered version; the update
\* command without names runs one for every installed package of which
\* another version is offered.
C28_UpdateListedOrAll ==
    UpdateOver =>
        /\ \A name \in run.names :
              (\E p \in Offered : Name(p) = name /\ ~Contains(run.installed, p))
                  => UpdateStartedFor(name)
        /\ (run.names = {} /\ run.requested = {}) =>
              \A q \in run.installed : Outdated(q) => UpdateStartedFor(Name(q))

(***************************************************************************)
(* Extraction: refused paths, metadata entries and the post-install script *)
(***************************************************************************)

\* The paths extract_package never writes: absolute ones (Path::is_absolute
\* on the target system: a drive prefix and a root), the ones that contain
\* "..", and the three metadata entries.
NeverWritten(path) == IsAbsolute(path) \/ ContainsDotDot(path) \/ path \in METADATA

\* One entry of a pass is being processed in this step.
EntryStep == run.pc = "extract" /\ run.entry > 0 /\ run'.pc # "crash"

ExtractedEntry == Archive(run.package[1])[run.entry]

\* C31: an archive entry whose path is absolute or contains ".." leaves the
\* root tree as it was in both passes, the metadata entries .BUILDINFO,
\* .MTREE and .PKGINFO are never found under the root, and the step that
\* processes .INSTALL in setup mode writes nothing.
C31_RefusedEntries ==
    [][/\ (EntryStep /\ NeverWritten(ExtractedEntry.path)) => root_files' = root_files
       /\ (EntryStep /\ ExtractedEntry.path = DOT_INSTALL /\ run.setup)
             => root_files' = root_files
       /\ \A node \in root_files' : ~NeverWritten(node.path)]_vars

\* Both passes over an archive that holds a metadata entry, an absolute path
\* and a ".." path are over, after the bootstrap has met .INSTALL in setup
\* mode, and the entries that are not refused were written.
C31_Witness ==
    /\ run.pc = "hook"
    /\ Name(run.package[1]) = G
    /\ {ABSOLUTE_PATH, DOT_DOT_PATH} \subseteq {Archive(run.package[1])[i].path : i \in 1..Len(Archive(run.package[1]))}
    /\ \E node \in root_files : node.path = <<"o", "p", "t", "/">> \o G
    /\ \E i \in 1..Len(run.started) : run.started[i].setup /\ Name(run.started[i].package) = INFO

\* The post-install script is under the root.
HasScript(tree) == \E node \in tree : node.path = DOT_INSTALL

\* install_package or update_package is past the hook of a normal-mode
\* extraction: it records the package, removes the marker or returns from there.
PastHook(r) ==
    /\ ~r.setup
    /\ \/ r.pc \in {"record", "remove"}
       \/ r.pc = "return" /\ r.result \in {"Ok", "record", "remove"}

\* C32: in normal mode, once both passes are over, a script found at
\* <root>/.INSTALL is handed to bash once; whether bash started or not and
\* whatever it printed or returned, extract_package deletes the script and
\* returns Ok, so that the next step is the recording of the package (only a
\* failing deletion stops the process); from there to the return of the
\* transaction there is no .INSTALL under the root.
C32_HookNeverFails ==
    [][/\ (run.pc = "hook" /\ HasScript(root_files) /\ run'.pc \notin {"crash", "panic"})
             => /\ run'.pc = "record"
                /\ run'.script \in {"ran", "not started"}
                /\ Cardinality({i \in 1..Len(run'.trace) : run'.trace[i] = "hook"}) = 1
                /\ ~HasScript(root_files')
       /\ (run.pc = "hook" /\ ~HasScript(root_files) /\ run'.pc # "crash")
             => run'.pc = "record" /\ run'.script = "none" /\ root_files' = root_files
       /\ run'.pc = "hook" => ~run'.setup /\ run'.pass = "pass2"
       /\ PastHook(run') => ~HasScript(root_files')]_vars

\* The script of info was unpacked, bash could not be started on it, and the
\* package was nevertheless added to the catalog, the script being gone.
C32_Witness ==
    /\ run.pc = "remove"
    /\ Name(run.package[1]) = INFO
    /\ run.script = "not started"
    /\ ~HasScript(root_files)
    /\ \E i \in 1..Len(run.trace) : run.trace[i] = "append"

\* The node that a link name resolves to, if there is one.
TargetNodes(tree, entry) ==
    IF entry.link_name = <<>> THEN {}
    ELSE {node \in tree : node.path = LinkTarget(entry.link_name[1])}

\* Pass 2 is processing a link entry that it does not refuse.
LinkStep ==
    /\ EntryStep
    /\ run.pass = "pass2"
    /\ ExtractedEntry.entry_type \in {"Link", "Symlink"}
    /\ ~Skipped(ExtractedEntry)
    /\ ExtractedEntry.path # DOT_INSTALL

\* C35: in pass 2, a link entry whose resolved target is neither an existing
\* directory nor an existing file leaves the root tree as it was (no link is
\* created and what is at the link path stays); a junction appears only for
\* an existing directory target and a hard link only for an existing file
\* target.
C35_DanglingLinkSkipped ==
    [][LinkStep =>
         /\ TargetNodes(root_files, ExtractedEntry) = {} => root_files' = root_files
         /\ \A node \in root_files' \ root_files :
               /\ node.path = ExtractedEntry.path
               /\ node.kind = "junction" =>
                     \E target \in TargetNodes(root_files, ExtractedEntry) :
                        target.kind \in {"dir", "junction"}
               /\ node.kind = "hardlink" =>
                     \E target \in TargetNodes(root_files, ExtractedEntry) :
                        target.kind \in {"file", "hardlink"}]_vars

\* C39: a package is added to the installed catalog, and its marker removed,
\* only if no directory, regular-file or link entry of its archive failed to
\* be created: after such a failure the record is not written, the marker is
\* not removed and the transaction does not return Ok.
C39_FailedEntryFailsTransaction ==
    (~run.setup /\ run.failed # {}) =>
        /\ run.pc # "remove"
        /\ run.pc = "return" => run.result \notin {"Ok", "remove"}

\* C40: a script unpacked by a normal-mode transaction is deleted only after
\* bash has run it, and whenever the hook finds a script bash.exe is under
\* the root (no package with a script is installed in normal mode before bash
\* was extracted).
C40_ScriptRunBeforeDeleted ==
    [][(run.pc = "hook" /\ HasScript(root_files) /\ run'.pc # "crash")
          => /\ BashInRoot(root_files)
             /\ ~HasScript(root_files') => run'.script = "ran"]_vars

\* C38: a marker found on disk by a command is overwritten or removed only
\* after the command has offered its replay: the transaction that writes over
\* a marker, and the step that deletes a marker it did not write, belong to a
\* command that has read the marker and asked.
C38_MarkerOfferedFirst ==
    [][/\ (run.pc = "marker" /\ pending_file # <<>> /\ run'.pc = "download")
             => run.replayed # <<>>
       /\ (pending_file # <<>> /\ pending_file' = <<>>)
             => \/ run'.replayed # <<>>
                \/ \E i \in 1..Len(run.trace) : run.trace[i] = "marker"]_vars

(***************************************************************************)
(* The freshness shortcut and the partial sync of the available cache      *)
(***************************************************************************)

\* The repositories listed in the header of a file, in the order of Enabled.
Listed(file) ==
    SelectSeq(Enabled, LAMBDA r : r \in DOMAIN get_repository_versions_from_file(file))

\* C33: a call that finds the available file written within the last hour
\* and readable returns the set parsed from it without asking for any ETag,
\* fetching any database or writing the file; when the file is recent but
\* unreadable the call goes on as for an old file: the header is read, an
\* ETag is asked for each repository it lists, and the call returns the
\* fetched packages when every fetch and the save succeed.
C33_FreshnessShortcut ==
    \A i \in 1..Len(sync_call) :
        LET call == sync_call[i]
            cached == get_packages_from_file(call.before)
        IN  call.fresh =>
              IF cached # <<>>
              THEN /\ call.status = "returned"
                   /\ call.returned = cached[1]
                   /\ call.heads = <<>>
                   /\ call.calls = <<>>
                   /\ available_file = call.before
              ELSE /\ call.status # "panic" => call.heads = Listed(call.before)
                   /\ (call.saveOk /\ \A r \in Range(Enabled) : call.remote[r] # <<>>) =>
                         /\ call.status = "returned"
                         /\ call.calls = Enabled
                         /\ call.returned =
                               UNION {Range(call.remote[r][1].list) : r \in Range(Enabled)}

\* A call on a recent, readable file while a newer revision of a repository
\* has been published: the shortcut returned the older cached set.
C33_Witness ==
    /\ sync_call # <<>>
    /\ sync_call[1].fresh
    /\ get_packages_from_file(sync_call[1].before) # <<>>
    /\ sync_call[1].returned # {}
    /\ \E r \in Range(Enabled) :
          RemoteEtag(r, remote_generation[r])
             # get_repository_versions_from_file(sync_call[1].before)[r].etag

\* The case of C34: the cache is readable, some but not all enabled
\* repositories need syncing (they changed, or the header does not list
\* them), at least one of their fetches succeeded and the file was saved.
NeedsSync(call) ==
    {r \in Range(Enabled) :
        \/ r \notin DOMAIN get_repository_versions_from_file(call.before)
        \/ /\ call.etags[r] # <<>>
           /\ call.etags[r][1] # get_repository_versions_from_file(call.before)[r].etag}

PartialSyncWithSuccess(call) ==
    /\ ~call.fresh
    /\ get_packages_from_file(call.before) # <<>>
    /\ ~HeaderPanics(call.before)
    /\ NeedsSync(call) # {}
    /\ NeedsSync(call) # Range(Enabled)
    /\ \E r \in NeedsSync(call) : call.remote[r] # <<>>
    /\ call.saveOk

\* C34: after such a call the file holds, for each repository fetched, its
\* new ETag and the fetched records, and for every other enabled repository
\* that the cached header lists, its cached ETag and its cached records; no
\* other repository is in the file, and the returned set is what the file holds.
C34_PartialSyncMixesSections ==
    \A i \in 1..Len(sync_call) :
        LET call == sync_call[i]
            before == get_repository_versions_from_file(call.before)
            after == get_repository_versions_from_file(available_file)
            old == get_packages_from_file(call.before)
            new == get_packages_from_file(available_file)
            fetched == {r \in NeedsSync(call) : call.remote[r] # <<>>}
        IN  PartialSyncWithSuccess(call) =>
                /\ call.status = "returned"
                /\ new = <<call.returned>>
                /\ DOMAIN after = fetched \cup DOMAIN before
                /\ \A r \in fetched :
                      /\ after[r] = call.remote[r][1].version
                      /\ Section(new[1], r) = Range(call.remote[r][1].list)
                /\ \A r \in DOMAIN before \ fetched :
                      /\ after[r] = before[r]
                      /\ Section(new[1], r) = Section(old[1], r)

\* A partial sync in which the repository that changed was fetched and the
\* other one kept its cached section.
C34_Witness ==
    /\ sync_call # <<>>
    /\ PartialSyncWithSuccess(sync_call[1])
    /\ \E r \in DOMAIN get_repository_versions_from_file(sync_call[1].before) :
          /\ r \notin NeedsSync(sync_call[1])
          /\ Section(sync_call[1].returned, r) # {}
    /\ \E r \in NeedsSync(sync_call[1]) :
          /\ r \in DOMAIN get_repository_versions_from_file(sync_call[1].before)
          /\ Section(sync_call[1].returned, r) = Range(sync_call[1].remote[r][1].list)

(***************************************************************************)
(* The sort key of the missing dependencies                                *)
(***************************************************************************)

\* The number of dependencies a record declares (0 when they are not known).
DeclaredCount(it) == IF it.dependencies = <<>> THEN 0 ELSE Len(it.dependencies[1])

\* C36: the sort of the missing dependencies of a front package never
\* overflows and leaves them in descending order of the number of
\* dependencies each declares, whatever that number is.
C36_SortedByDeclaredCount ==
    (call_function = "sort_by_key" /\ call_result # <<>>) =>
        /\ call_result[1] # "panic"
        /\ \A i, j \in 1..Len(call_result[1]) :
              i < j => DeclaredCount(call_result[1][i]) >= DeclaredCount(call_result[1][j])

(***************************************************************************)
(* Closure of the resolver's output                                        *)
(***************************************************************************)

====
